---- MODULE Spec2Model ----
(***************************************************************************)
(* Streaming Protocol-Buffer timeseries encoder (package proto, Encoder). *)
(* The encoder is a single-writer state machine around a bit stream; one  *)
(* action per public operation of Encoder.                                *)
(***************************************************************************)
EXTENDS Integers, Sequences, FiniteSets, TLC

VARIABLES
    stream,            \* enc.stream: the bits written so far (MSB first)
    schemaDesc,        \* enc.schemaDesc
    schema,            \* enc.schema (message descriptor, <<>> = nil)
    numEncoded,        \* enc.numEncoded
    lastEncodedDP,     \* enc.lastEncodedDP
    lastEncoded,       \* enc.lastEncoded
    customFields,      \* enc.customFields
    protoFields,       \* enc.protoFields
    hardErr,           \* enc.hardErr
    hasEncodedSchema,  \* enc.hasEncodedSchema
    closed,            \* enc.closed
    stats,             \* enc.stats.uncompressedBytes
    timestampEncoder,  \* enc.timestampEncoder
    lruSize,           \* enc.opts.ByteFieldDictionaryLRUSize()
    \* (the scratch fields varIntBuf, changedValues, fieldsChangedToDefault,
    \* marshalBuf and unmarshaled are written by every Encode before it reads
    \* them; they are local to EncodeImpl here)
    parts,             \* history: the parts written to the current stream
    puts,              \* the calls of EncoderPool.Put in the last operation
    ret                \* the last operation, its arguments and its results

vars == <<stream, schemaDesc, schema, numEncoded, lastEncodedDP, lastEncoded,
          customFields, protoFields, hardErr, hasEncodedSchema,
          closed, stats, timestampEncoder, lruSize, parts, puts, ret>>

-----------------------------------------------------------------------------
(* Bounds of the model *)

\* Encode is not called with an annotation that takes the accepted
\* annotation bytes above this
MaxUncompressedBytes == 5
\* the configured ByteFieldDictionaryLRUSize
MaxLRUSize == 2

-----------------------------------------------------------------------------
(* Program constants *)

currentEncodingSchemeVersion == 1

\* control bits (opCode...): the values of the bit-stream format
opCodeMoreData == 0
opCodeNoMoreDataOrTimeUnitChangeAndOrSchemaChange == 1
opCodeTimeUnitChangeAndOrSchemaChange == 1
opCodeTimeUnitChange == 1
opCodeTimeUnitUnchanged == 0
opCodeSchemaChange == 1
opCodeSchemaUnchanged == 0
opCodeNoChange == 0
opCodeChange == 1
opCodeInterpretSubsequentBitsAsLRUIndex == 0
opCodeInterpretSubsequentBitsAsBytesLengthVarInt == 1
opCodeNoFieldsSetToDefaultProtoMarshal == 0
opCodeFieldsSetToDefaultProtoMarshal == 1
opCodeBitsetValueIsNotSet == 0
opCodeBitsetValueIsSet == 1
opCodeBoolTrue == 1
opCodeBoolFalse == 0

\* custom field types written to the schema block
notCustomEncodedField == 0
bytesField == 7
boolField == 8
numBitsToEncodeCustomType == 4

\* time.Time{} and the units of xtime.Unit (None is not a valid unit)
ZeroTime == 0
Units == {"none", "s", "ms"}
DefaultTimeUnit == "s"
UnitByte(u) == CASE u = "none" -> 0 [] u = "s" -> 1 [] u = "ms" -> 2

-----------------------------------------------------------------------------
(* Errors: <<kind, cause>> *)

NoErr == <<"nil", "">>
errEncoderClosed == <<"errEncoderClosed", "">>
errEncoderSchemaIsRequired == <<"invariant", "errEncoderSchemaIsRequired">>
errEncoderMessageHasUnknownFields == <<"errEncoderMessageHasUnknownFields", "">>
errNoEncodedDatapoints == <<"errNoEncodedDatapoints", "">>
errUnmarshal == <<"errUnmarshal", "">>
errHardErr(cause) == <<"errHardErr", cause>>
errEncodingTimestamp(cause) == <<"errEncodingTimestamp", cause>>
errEncodingProto(cause) == <<"errEncodingProto", cause>>

-----------------------------------------------------------------------------
(* Bits and bytes *)

Pow2(n) == 2 ^ n

\* the n low bits of v, most significant first
Bits(v, n) == [i \in 1..n |-> (v \div Pow2(n - i)) % 2]

RECURSIVE BytesToBits(_)
BytesToBits(bs) ==
    IF bs = <<>> THEN <<>> ELSE Bits(Head(bs), 8) \o BytesToBits(Tail(bs))

\* binary.PutUvarint: seven payload bits per byte, low group first
RECURSIVE PutUvarint(_)
PutUvarint(x) ==
    IF x < 128 THEN <<x>> ELSE <<(x % 128) + 128>> \o PutUvarint(x \div 128)

\* OStream
WriteBit(s, b) == Append(s, b)
WriteBits(s, v, n) == s \o Bits(v, n)
WriteByte(s, b) == s \o Bits(b, 8)
WriteBytes(s, bs) == s \o BytesToBits(bs)
StreamLen(s) == Len(s)

NumRawbytes(s) == (Len(s) + 7) \div 8
BitAt(s, i) == IF i <= Len(s) THEN s[i] ELSE 0
ByteAt(s, k) ==
    LET b(j) == BitAt(s, 8 * (k - 1) + j)
    IN 128 * b(1) + 64 * b(2) + 32 * b(3) + 16 * b(4)
       + 8 * b(5) + 4 * b(6) + 2 * b(7) + b(8)
\* Rawbytes: the buffer (the last byte zero-filled) and the bit position
Rawbytes(s) == [k \in 1..NumRawbytes(s) |-> ByteAt(s, k)]
RawbytesPos(s) == Len(s) % 8

SubSeqOrEmpty(s, from, to) == IF from > to THEN <<>> ELSE SubSeq(s, from, to)

-----------------------------------------------------------------------------
(* Schemas: a SchemaDescr is a deploy id and a message descriptor; a      *)
(* message descriptor is the sequence of its fields in descriptor order.  *)

FieldTypes == {"bytes", "bool", "enum"}

NilSchema == <<>>
NilDescr == [nil |-> TRUE, deployId |-> "", md |-> NilSchema]

DescrA == [nil |-> FALSE, deployId |-> "A",
           md |-> << [num |-> 3, type |-> "bool"],
                     [num |-> 1, type |-> "bytes"] >>]
DescrB == [nil |-> FALSE, deployId |-> "B",
           md |-> << [num |-> 2, type |-> "enum"],
                     [num |-> 4, type |-> "enum"] >>]
DescrE == [nil |-> FALSE, deployId |-> "",
           md |-> << [num |-> 3, type |-> "bool"],
                     [num |-> 4, type |-> "enum"] >>]
Descrs == {DescrA, DescrB, DescrE}

FieldNums(md) == {md[i].num : i \in 1..Len(md)}
FindFieldByNumber(md, n) == md[CHOOSE i \in 1..Len(md) : md[i].num = n]

\* proto3 default value of a field type
DefaultValue(type) ==
    CASE type = "bytes" -> <<>>
      [] type = "bool" -> FALSE
      [] type = "enum" -> 0

\* mapProtoTypeToCustomFieldType
CustomFieldType(type) ==
    CASE type = "bytes" -> bytesField
      [] type = "bool" -> boolField
      [] OTHER -> notCustomEncodedField

newCustomFieldState(fieldNum, fieldType) ==
    [fieldNum |-> fieldNum, fieldType |-> fieldType, bytesFieldDict |-> <<>>]

RECURSIVE InsertByFieldNum(_, _)
InsertByFieldNum(s, f) ==
    IF s = <<>> THEN <<f>>
    ELSE IF f.fieldNum < Head(s).fieldNum THEN <<f>> \o s
    ELSE <<Head(s)>> \o InsertByFieldNum(Tail(s), f)

RECURSIVE SortByFieldNum(_)
SortByFieldNum(s) ==
    IF s = <<>> THEN <<>>
    ELSE InsertByFieldNum(SortByFieldNum(Tail(s)), Head(s))

\* customAndProtoFields: the fields with a custom coder, sorted by field
\* number and with fresh coder state, and the numbers of the other fields
\* in descriptor order.  s and pf are only reused for their allocation.
customAndProtoFields(s, pf, md) ==
    LET isCustom(i) == CustomFieldType(md[i].type) # notCustomEncodedField
        custom == SelectSeq([i \in 1..Len(md) |->
                      [idx |-> i, fieldNum |-> md[i].num]],
                      LAMBDA x : isCustom(x.idx))
        proto == SelectSeq([i \in 1..Len(md) |->
                      [idx |-> i, fieldNum |-> md[i].num]],
                      LAMBDA x : ~isCustom(x.idx))
    IN [customFields |->
            SortByFieldNum([k \in 1..Len(custom) |->
                newCustomFieldState(custom[k].fieldNum,
                    CustomFieldType(md[custom[k].idx].type))]),
        protoFields |-> [k \in 1..Len(proto) |-> proto[k].fieldNum]]

-----------------------------------------------------------------------------
(* dynamic.Message and the protobuf wire format *)

NilMessage == [nil |-> TRUE, vals |-> <<>>, unknown |-> 0]

\* dynamic.NewMessage(md)
NewMessage(md) ==
    [nil |-> FALSE,
     vals |-> [n \in FieldNums(md) |-> DefaultValue(FindFieldByNumber(md, n).type)],
     unknown |-> 0]

GetFieldByNumber(m, n) == m.vals[n]
TrySetFieldByNumber(m, n, v) == [m EXCEPT !.vals[n] = v]
TryClearFieldByNumber(md, m, n) ==
    [m EXCEPT !.vals[n] = DefaultValue(FindFieldByNumber(md, n).type)]

WireVarint == 0
WireFixed64 == 1
WireBytes == 2
WireFixed32 == 5
WireType(type) == IF type = "bytes" THEN WireBytes ELSE WireVarint

\* binary.Uvarint at index i of bs
RECURSIVE ReadUvarint(_, _)
ReadUvarint(bs, i) ==
    IF i > Len(bs) THEN [ok |-> FALSE, val |-> 0, next |-> i]
    ELSE IF bs[i] < 128 THEN [ok |-> TRUE, val |-> bs[i], next |-> i + 1]
    ELSE LET r == ReadUvarint(bs, i + 1)
         IN [ok |-> r.ok, val |-> (bs[i] - 128) + 128 * r.val, next |-> r.next]

\* a decoded field: set it when the message descriptor knows the number
\* with that wire type, else keep it as an unknown field
StoreField(md, m, num, wt, payload) ==
    IF num \in FieldNums(md) /\ WireType(FindFieldByNumber(md, num).type) = wt
    THEN LET type == FindFieldByNumber(md, num).type
         IN [m EXCEPT !.vals[num] =
                CASE type = "bool" -> payload # 0
                  [] OTHER -> payload]
    ELSE [m EXCEPT !.unknown = @ + 1]

RECURSIVE UnmarshalMerge(_, _, _, _)
UnmarshalMerge(md, bs, i, m) ==
    IF i > Len(bs) THEN [ok |-> TRUE, msg |-> m]
    ELSE LET tag == ReadUvarint(bs, i)
             num == tag.val \div 8
             wt == tag.val % 8
             fail == [ok |-> FALSE, msg |-> m]
         IN IF ~tag.ok \/ num = 0 THEN fail
            ELSE IF wt = WireVarint THEN
                LET v == ReadUvarint(bs, tag.next)
                IN IF ~v.ok THEN fail
                   ELSE UnmarshalMerge(md, bs, v.next,
                            StoreField(md, m, num, wt, v.val))
            ELSE IF wt = WireBytes THEN
                LET l == ReadUvarint(bs, tag.next)
                IN IF ~l.ok \/ l.next + l.val - 1 > Len(bs) THEN fail
                   ELSE UnmarshalMerge(md, bs, l.next + l.val,
                            StoreField(md, m, num, wt,
                                SubSeqOrEmpty(bs, l.next, l.next + l.val - 1)))
            ELSE IF wt \in {WireFixed64, WireFixed32} THEN
                LET n == IF wt = WireFixed64 THEN 8 ELSE 4
                IN IF tag.next + n - 1 > Len(bs) THEN fail
                   ELSE UnmarshalMerge(md, bs, tag.next + n,
                            [m EXCEPT !.unknown = @ + 1])
            ELSE fail

\* Message.Unmarshal: reset the message, then merge the wire bytes into it
Unmarshal(md, bs) == UnmarshalMerge(md, bs, 1, NewMessage(md))
GetUnknownFields(m) == m.unknown

MarshalField(num, type, v) ==
    PutUvarint(num * 8 + WireType(type)) \o
    CASE type = "bytes" -> PutUvarint(Len(v)) \o v
      [] type = "bool" -> <<1>>
      [] type = "enum" -> PutUvarint(v)

RECURSIVE MarshalFrom(_, _, _)
MarshalFrom(md, m, nums) ==
    IF nums = {} THEN <<>>
    ELSE LET n == CHOOSE x \in nums : \A y \in nums : x <= y
             type == FindFieldByNumber(md, n).type
         IN (IF m.vals[n] = DefaultValue(type) THEN <<>>
             ELSE MarshalField(n, type, m.vals[n]))
            \o MarshalFrom(md, m, nums \ {n})

\* Message.MarshalAppend(buf[:0]): the set fields in field-number order
MarshalAppend(md, m) == MarshalFrom(md, m, FieldNums(md))

-----------------------------------------------------------------------------
(* Inputs *)

\* the (timestamp, time unit) pairs passed to Encode
TimeInputs == {<<1, "s">>, <<2, "ms">>, <<2, "none">>}
Starts == {ZeroTime}
LRUSizes == {MaxLRUSize}

NonDefaultValues(type) ==
    CASE type = "bytes" -> {<<7>>}
      [] type = "bool" -> {TRUE}
      [] type = "enum" -> {300}

RECURSIVE AnnotationsFrom(_, _)
AnnotationsFrom(md, nums) ==
    IF nums = {} THEN {<<>>}
    ELSE LET n == CHOOSE x \in nums : \A y \in nums : x <= y
             type == FindFieldByNumber(md, n).type
             encs == {<<>>} \cup
                     {MarshalField(n, type, v) : v \in NonDefaultValues(type)}
         IN {a \o rest : a \in encs, rest \in AnnotationsFrom(md, nums \ {n})}

\* the wire bytes of every message of the descriptor
ValidAnnotations(d) == AnnotationsFrom(d.md, FieldNums(d.md))

\* field 5 is in no schema; a bytes field cut short
UnknownFieldAnnotation == <<40, 1>>
TruncatedAnnotation == <<10, 3, 7>>

\* the annotations passed to Encode: the wire bytes of every non-empty
\* message of the descriptors, and the two broken ones (every accepted
\* annotation adds to stats.uncompressedBytes, which bounds the model)
Annotations ==
    (UNION {ValidAnnotations(d) : d \in Descrs} \ {<<>>})
    \cup {UnknownFieldAnnotation, TruncatedAnnotation}

-----------------------------------------------------------------------------
(* Timestamp sub-coder (m3tsz.TimestampEncoder): black box with WriteTime, *)
(* WriteTimeUnit and the field TimeUnit.                                   *)

StartTimeBits == 8
DeltaOfDeltaBits == 4
errInvalidTimeUnit == <<"errInvalidTimeUnit", "">>

NewTimestampEncoder(start, unit) ==
    [PrevTime |-> start, PrevTimeDelta |-> 0, TimeUnit |-> unit,
     hasWrittenFirst |-> FALSE]

\* one byte holding the unit; the unit becomes the current one
WriteTimeUnit(s, te, unit) ==
    [stream |-> WriteByte(s, UnitByte(unit)),
     te |-> [te EXCEPT !.TimeUnit = unit]]

Abs(x) == IF x < 0 THEN -x ELSE x

\* the first call writes the start time; every call writes the delta of
\* deltas: 0, or 1, a sign bit and the magnitude.  A unit without a value
\* fails after the start time was written.
WriteTime(s, te, t, unit) ==
    LET s1 == IF te.hasWrittenFirst THEN s
              ELSE WriteBits(s, te.PrevTime, StartTimeBits)
        delta == t - te.PrevTime
        dod == delta - te.PrevTimeDelta
    IN IF unit = "none"
       THEN [err |-> errInvalidTimeUnit, stream |-> s1,
             te |-> [te EXCEPT !.PrevTime = t]]
       ELSE [err |-> NoErr,
             stream |-> IF dod = 0 THEN WriteBit(s1, 0)
                        ELSE WriteBits(
                                 WriteBit(WriteBit(s1, 1),
                                          IF dod < 0 THEN 1 ELSE 0),
                                 Abs(dod), DeltaOfDeltaBits),
             te |-> [te EXCEPT !.PrevTime = t, !.PrevTimeDelta = delta,
                               !.hasWrittenFirst = TRUE]]

-----------------------------------------------------------------------------
(* The encoder as a record, so that the helpers of Encoder can be written  *)
(* as functions from encoder to encoder.                                   *)

Enc ==
    [stream |-> stream, schemaDesc |-> schemaDesc, schema |-> schema,
     numEncoded |-> numEncoded, lastEncodedDP |-> lastEncodedDP,
     lastEncoded |-> lastEncoded, customFields |-> customFields,
     protoFields |-> protoFields,
     hardErr |-> hardErr, hasEncodedSchema |-> hasEncodedSchema,
     closed |-> closed, stats |-> stats,
     timestampEncoder |-> timestampEncoder, lruSize |-> lruSize,
     parts |-> parts, puts |-> 0]

SetEnc(e) ==
    /\ stream' = e.stream
    /\ schemaDesc' = e.schemaDesc
    /\ schema' = e.schema
    /\ numEncoded' = e.numEncoded
    /\ lastEncodedDP' = e.lastEncodedDP
    /\ lastEncoded' = e.lastEncoded
    /\ customFields' = e.customFields
    /\ protoFields' = e.protoFields
    /\ hardErr' = e.hardErr
    /\ hasEncodedSchema' = e.hasEncodedSchema
    /\ closed' = e.closed
    /\ stats' = e.stats
    /\ timestampEncoder' = e.timestampEncoder
    /\ lruSize' = e.lruSize
    /\ parts' = e.parts
    /\ puts' = e.puts

ZeroDatapoint == [Timestamp |-> ZeroTime, Value |-> 0]

\* history: the bits that e1 wrote after e0 are one part of the stream;
\* unit is the time unit that the Encode call was given, field the number
\* of the custom field that the part holds the value of and val that value
\* (for the residual proto part, the values of all fields of the message)
MarkField(e0, e1, kind, unit, field, val) ==
    [e1 EXCEPT !.parts = Append(@,
        [kind |-> kind, pos |-> Len(e0.stream),
         len |-> Len(e1.stream) - Len(e0.stream),
         sample |-> e0.numEncoded + 1, unit |-> unit, field |-> field,
         val |-> val])]

Mark(e0, e1, kind, unit) == MarkField(e0, e1, kind, unit, 0, <<>>)

\* NewEncoder(start, opts)
NewEncoder(start, size) ==
    [stream |-> <<>>, schemaDesc |-> NilDescr, schema |-> NilSchema,
     numEncoded |-> 0, lastEncodedDP |-> ZeroDatapoint,
     lastEncoded |-> NilMessage, customFields |-> <<>>,
     protoFields |-> <<>>,
     hardErr |-> NoErr, hasEncodedSchema |-> FALSE,
     closed |-> FALSE, stats |-> 0,
     timestampEncoder |-> NewTimestampEncoder(start, DefaultTimeUnit),
     lruSize |-> size, parts |-> <<>>, puts |-> 0]

\* isUsable with a slip: hardErr is not looked at
isUsable_IgnoresHardErr(e) ==
    IF e.closed THEN errEncoderClosed ELSE NoErr

\* isUsable with a slip: hardErr is looked at before closed
isUsable_HardErrFirst(e) ==
    IF e.hardErr # NoErr THEN errHardErr(e.hardErr[1])
    ELSE IF e.closed THEN errEncoderClosed
    ELSE NoErr

isUsable(e) ==
    IF e.closed THEN errEncoderClosed
    ELSE IF e.hardErr # NoErr THEN errHardErr(e.hardErr[1])
    ELSE NoErr

encodeVarInt(e, x) == [e EXCEPT !.stream = WriteBytes(@, PutUvarint(x))]

encodeStreamHeader(e) ==
    encodeVarInt(encodeVarInt(e, currentEncodingSchemeVersion), e.lruSize)

\* the custom type of field number i: the first custom field with that
\* number, else notCustomEncodedField
CustomTypeBits(cfs, i) ==
    IF \E k \in 1..Len(cfs) : cfs[k].fieldNum = i
    THEN cfs[CHOOSE k \in 1..Len(cfs) :
                /\ cfs[k].fieldNum = i
                /\ \A j \in 1..(k - 1) : cfs[j].fieldNum # i].fieldType
    ELSE notCustomEncodedField

RECURSIVE WriteCustomTypes(_, _, _, _)
WriteCustomTypes(s, cfs, i, maxFieldNum) ==
    IF i > maxFieldNum THEN s
    ELSE WriteCustomTypes(
             WriteBits(s, CustomTypeBits(cfs, i), numBitsToEncodeCustomType),
             cfs, i + 1, maxFieldNum)

\* encodeCustomSchemaTypes with a slip: the number of custom fields is
\* taken for the largest field number
encodeCustomSchemaTypes_CountForMax(e) ==
    IF Len(e.customFields) = 0 THEN encodeVarInt(e, 0)
    ELSE LET maxFieldNum == Len(e.customFields)
             e1 == encodeVarInt(e, maxFieldNum)
         IN [e1 EXCEPT !.stream =
                WriteCustomTypes(@, e.customFields, 1, maxFieldNum)]

encodeCustomSchemaTypes(e) ==
    IF Len(e.customFields) = 0 THEN encodeVarInt(e, 0)
    ELSE LET maxFieldNum == e.customFields[Len(e.customFields)].fieldNum
             e1 == encodeVarInt(e, maxFieldNum)
         IN [e1 EXCEPT !.stream =
                WriteCustomTypes(@, e.customFields, 1, maxFieldNum)]

-----------------------------------------------------------------------------
(* Custom-field coders *)

HashRange == 4
RECURSIVE SumBytes(_)
SumBytes(bs) == IF bs = <<>> THEN 0 ELSE Head(bs) + SumBytes(Tail(bs))
\* xxhash.Sum64: a hash of the bytes (equal bytes, equal hash; collisions
\* exist)
Sum64(bs) == SumBytes(bs) % HashRange

errUnknownType == <<"errFoundUnknownType", "">>
errNoCustomLogic == <<"errNoLogicForCustomEncoding", "">>
errGetField == <<"errTryingToGetFieldNumber", "">>
errBytesMatch == <<"errCheckingBytesMatch", "">>
errOutsideOfStream == <<"errBytesPositionOutsideOfStream", "">>

\* the bits needed for an index into a dictionary of n entries
RECURSIVE numBitsRequiredForNumUpToN(_)
numBitsRequiredForNumUpToN(n) ==
    IF n <= 1 THEN 0 ELSE 1 + numBitsRequiredForNumUpToN((n + 1) \div 2)

bytesMatchEncodedDictionaryValue(streamBytes, dictState, currBytes) ==
    LET prevEncodedBytesStart == dictState.startPos
        prevEncodedBytesEnd == prevEncodedBytesStart + dictState.length
    IN IF prevEncodedBytesEnd > Len(streamBytes)
       THEN [match |-> FALSE, err |-> errOutsideOfStream]
       ELSE [match |-> SubSeqOrEmpty(streamBytes, prevEncodedBytesStart + 1,
                                     prevEncodedBytesEnd) = currBytes,
             err |-> NoErr]

RECURSIVE PadLoop(_, _)
PadLoop(s, bitPos) ==
    IF bitPos % 8 # 0 THEN PadLoop(WriteBit(s, 0), bitPos + 1) ELSE s

\* padToNextByte with a slip: no bit is written
padToNextByte_NoPadding(e) == e

padToNextByte(e) ==
    [e EXCEPT !.stream = PadLoop(@, RawbytesPos(@))]

RECURSIVE MoveLoop(_, _)
MoveLoop(existing, j) ==
    IF j + 1 > Len(existing) THEN existing
    ELSE MoveLoop([existing EXCEPT ![j] = existing[j + 1],
                                   ![j + 1] = existing[j]], j + 1)

\* moveToEndOfBytesDict with a slip: the entry is swapped with the tail
moveToEndOfBytesDict_SwapsWithTail(e, fieldIdx, i) ==
    LET existing == e.customFields[fieldIdx].bytesFieldDict
        n == Len(existing)
    IN [e EXCEPT !.customFields[fieldIdx].bytesFieldDict =
           [existing EXCEPT ![i] = existing[n], ![n] = existing[i]]]

\* i is the index into the dictionary (from 1)
moveToEndOfBytesDict(e, fieldIdx, i) ==
    [e EXCEPT !.customFields[fieldIdx].bytesFieldDict = MoveLoop(@, i)]

\* addToBytesDict with a slip: the entry is appended to a full dictionary
addToBytesDict_NoEviction(e, fieldIdx, state) ==
    [e EXCEPT !.customFields[fieldIdx].bytesFieldDict = Append(@, state)]

\* addToBytesDict with a slip: on a full dictionary the entry replaces the
\* tail and the head is kept
addToBytesDict_EvictsTail(e, fieldIdx, state) ==
    LET existing == e.customFields[fieldIdx].bytesFieldDict
    IN IF Len(existing) < e.lruSize
       THEN [e EXCEPT !.customFields[fieldIdx].bytesFieldDict =
                Append(existing, state)]
       ELSE [e EXCEPT !.customFields[fieldIdx].bytesFieldDict =
                [existing EXCEPT ![Len(existing)] = state]]

addToBytesDict(e, fieldIdx, state) ==
    LET existing == e.customFields[fieldIdx].bytesFieldDict
    IN IF Len(existing) < e.lruSize
       THEN [e EXCEPT !.customFields[fieldIdx].bytesFieldDict =
                Append(existing, state)]
       ELSE [e EXCEPT !.customFields[fieldIdx].bytesFieldDict =
                [k \in 1..Len(existing) |->
                    IF k < Len(existing) THEN existing[k + 1] ELSE state]]

\* the scan of the dictionary from the head: the first entry with the hash
\* and the bytes of currBytes
RECURSIVE FindInBytesDict(_, _, _, _, _)
FindInBytesDict(streamBytes, dict, hash, currBytes, j) ==
    IF j > Len(dict) THEN [kind |-> "miss", j |-> 0]
    ELSE IF hash # dict[j].hash
    THEN FindInBytesDict(streamBytes, dict, hash, currBytes, j + 1)
    ELSE LET r == bytesMatchEncodedDictionaryValue(
                      streamBytes, dict[j], currBytes)
         IN IF r.err # NoErr THEN [kind |-> "err", j |-> j]
            ELSE IF ~r.match
            THEN FindInBytesDict(streamBytes, dict, hash, currBytes, j + 1)
            ELSE [kind |-> "hit", j |-> j]

\* the Go type of the value that the message holds for a field number
ValueType(e, fieldNum) == FindFieldByNumber(e.schema, fieldNum).type

\* encodeBytesValue with a slip: the value is not compared with the tail
\* of the dictionary
encodeBytesValue_NoTailCheck(e, i, iVal) ==
    LET customField == e.customFields[i]
        currBytes == iVal
        hash == Sum64(currBytes)
        dict == customField.bytesFieldDict
        numPreviousBytes == Len(dict)
        lastState == dict[numPreviousBytes]
        last == [match |-> FALSE, err |-> NoErr]
        e1 == [e EXCEPT !.stream = WriteBit(@, opCodeChange)]
        found == FindInBytesDict(Rawbytes(e1.stream), dict, hash, currBytes, 1)
        e2 == [e1 EXCEPT !.stream =
                  WriteBits(
                      WriteBit(@, opCodeInterpretSubsequentBitsAsLRUIndex),
                      found.j - 1, numBitsRequiredForNumUpToN(e.lruSize))]
        e3 == padToNextByte(encodeVarInt(
                  [e1 EXCEPT !.stream = WriteBit(@,
                      opCodeInterpretSubsequentBitsAsBytesLengthVarInt)],
                  Len(currBytes)))
        bytePos == Len(Rawbytes(e3.stream))
        e4 == [e3 EXCEPT !.stream = WriteBytes(@, currBytes)]
    IN IF ValueType(e, customField.fieldNum) # "bytes"
       THEN [enc |-> e, err |-> errUnknownType]
       ELSE IF last.err # NoErr THEN [enc |-> e, err |-> errBytesMatch]
       ELSE IF last.match
       THEN [enc |-> [e EXCEPT !.stream = WriteBit(@, opCodeNoChange)],
             err |-> NoErr]
       ELSE IF found.kind = "err" THEN [enc |-> e1, err |-> errBytesMatch]
       ELSE IF found.kind = "hit"
       THEN [enc |-> moveToEndOfBytesDict(e2, i, found.j), err |-> NoErr]
       ELSE [enc |-> addToBytesDict(e4, i,
                        [hash |-> hash, startPos |-> bytePos,
                         length |-> Len(currBytes)]),
             err |-> NoErr]

\* encodeBytesValue with a slip: the dictionary is not searched for the
\* value
encodeBytesValue_NoDictScan(e, i, iVal) ==
    LET customField == e.customFields[i]
        currBytes == iVal
        hash == Sum64(currBytes)
        dict == customField.bytesFieldDict
        numPreviousBytes == Len(dict)
        lastState == dict[numPreviousBytes]
        last == IF numPreviousBytes > 0 /\ hash = lastState.hash
                THEN bytesMatchEncodedDictionaryValue(
                         Rawbytes(e.stream), lastState, currBytes)
                ELSE [match |-> FALSE, err |-> NoErr]
        e1 == [e EXCEPT !.stream = WriteBit(@, opCodeChange)]
        found == [kind |-> "miss", j |-> 0]
        e2 == [e1 EXCEPT !.stream =
                  WriteBits(
                      WriteBit(@, opCodeInterpretSubsequentBitsAsLRUIndex),
                      found.j - 1, numBitsRequiredForNumUpToN(e.lruSize))]
        e3 == padToNextByte(encodeVarInt(
                  [e1 EXCEPT !.stream = WriteBit(@,
                      opCodeInterpretSubsequentBitsAsBytesLengthVarInt)],
                  Len(currBytes)))
        bytePos == Len(Rawbytes(e3.stream))
        e4 == [e3 EXCEPT !.stream = WriteBytes(@, currBytes)]
    IN IF ValueType(e, customField.fieldNum) # "bytes"
       THEN [enc |-> e, err |-> errUnknownType]
       ELSE IF last.err # NoErr THEN [enc |-> e, err |-> errBytesMatch]
       ELSE IF last.match
       THEN [enc |-> [e EXCEPT !.stream = WriteBit(@, opCodeNoChange)],
             err |-> NoErr]
       ELSE IF found.kind = "err" THEN [enc |-> e1, err |-> errBytesMatch]
       ELSE IF found.kind = "hit"
       THEN [enc |-> moveToEndOfBytesDict(e2, i, found.j), err |-> NoErr]
       ELSE [enc |-> addToBytesDict(e4, i,
                        [hash |-> hash, startPos |-> bytePos,
                         length |-> Len(currBytes)]),
             err |-> NoErr]

encodeBytesValue(e, i, iVal) ==
    LET customField == e.customFields[i]
        currBytes == iVal
        hash == Sum64(currBytes)
        dict == customField.bytesFieldDict
        numPreviousBytes == Len(dict)
        lastState == dict[numPreviousBytes]
        last == IF numPreviousBytes > 0 /\ hash = lastState.hash
                THEN bytesMatchEncodedDictionaryValue(
                         Rawbytes(e.stream), lastState, currBytes)
                ELSE [match |-> FALSE, err |-> NoErr]
        e1 == [e EXCEPT !.stream = WriteBit(@, opCodeChange)]
        found == FindInBytesDict(Rawbytes(e1.stream), dict, hash, currBytes, 1)
        e2 == [e1 EXCEPT !.stream =
                  WriteBits(
                      WriteBit(@, opCodeInterpretSubsequentBitsAsLRUIndex),
                      found.j - 1, numBitsRequiredForNumUpToN(e.lruSize))]
        e3 == padToNextByte(encodeVarInt(
                  [e1 EXCEPT !.stream = WriteBit(@,
                      opCodeInterpretSubsequentBitsAsBytesLengthVarInt)],
                  Len(currBytes)))
        bytePos == Len(Rawbytes(e3.stream))
        e4 == [e3 EXCEPT !.stream = WriteBytes(@, currBytes)]
    IN IF ValueType(e, customField.fieldNum) # "bytes"
       THEN [enc |-> e, err |-> errUnknownType]
       ELSE IF last.err # NoErr THEN [enc |-> e, err |-> errBytesMatch]
       ELSE IF last.match
       THEN [enc |-> [e EXCEPT !.stream = WriteBit(@, opCodeNoChange)],
             err |-> NoErr]
       ELSE IF found.kind = "err" THEN [enc |-> e1, err |-> errBytesMatch]
       ELSE IF found.kind = "hit"
       THEN [enc |-> moveToEndOfBytesDict(e2, i, found.j), err |-> NoErr]
       ELSE [enc |-> addToBytesDict(e4, i,
                        [hash |-> hash, startPos |-> bytePos,
                         length |-> Len(currBytes)]),
             err |-> NoErr]

encodeBoolValue(e, i, val) ==
    IF ValueType(e, e.customFields[i].fieldNum) # "bool"
    THEN [enc |-> e, err |-> errUnknownType]
    ELSE [enc |-> [e EXCEPT !.stream =
                      WriteBit(@, IF val THEN opCodeBoolTrue
                                  ELSE opCodeBoolFalse)],
          err |-> NoErr]

\* the loop of encodeCustomValues from the custom field with index i on
\* (the schemas of the model have no float and no integer fields)
RECURSIVE encodeCustomValuesFrom(_, _, _)
encodeCustomValuesFrom(e, m, i) ==
    IF i > Len(e.customFields) THEN [enc |-> e, err |-> NoErr]
    ELSE LET customField == e.customFields[i]
             r == IF customField.fieldNum \notin DOMAIN m.vals
                  THEN [enc |-> e, err |-> errGetField]
                  ELSE IF customField.fieldType = bytesField
                  THEN encodeBytesValue(e, i,
                           GetFieldByNumber(m, customField.fieldNum))
                  ELSE IF customField.fieldType = boolField
                  THEN encodeBoolValue(e, i,
                           GetFieldByNumber(m, customField.fieldNum))
                  ELSE [enc |-> e, err |-> errNoCustomLogic]
         IN IF r.err # NoErr THEN r
            ELSE encodeCustomValuesFrom(
                     MarkField(e, r.enc, "custom", "", customField.fieldNum,
                               GetFieldByNumber(m, customField.fieldNum)),
                     m, i + 1)

encodeCustomValues(e, m) == encodeCustomValuesFrom(e, m, 1)

-----------------------------------------------------------------------------
(* Residual proto path *)

fieldsEqual(curVal, prevVal) == curVal = prevVal
isDefaultValue(field, curVal) == curVal = DefaultValue(field.type)

RECURSIVE MaxOf(_, _)
MaxOf(values, max) ==
    IF values = <<>> THEN max
    ELSE MaxOf(Tail(values), IF Head(values) > max THEN Head(values) ELSE max)

RECURSIVE WriteBitset(_, _, _, _)
WriteBitset(s, values, i, max) ==
    IF i >= max THEN s
    ELSE WriteBitset(
             WriteBit(s, IF \E k \in 1..Len(values) : i = values[k] - 1
                         THEN opCodeBitsetValueIsSet
                         ELSE opCodeBitsetValueIsNotSet),
             values, i + 1, max)

\* encodeBitset with a slip: the last value is taken for the largest
encodeBitset_MaxIsLastValue(e, values) ==
    LET max == values[Len(values)]
        e1 == encodeVarInt(e, max)
    IN [e1 EXCEPT !.stream = WriteBitset(@, values, 0, max)]

encodeBitset(e, values) ==
    LET max == MaxOf(values, 0)
        e1 == encodeVarInt(e, max)
    IN [e1 EXCEPT !.stream = WriteBitset(@, values, 0, max)]

\* the loop over enc.protoFields from index k on: m is the message being
\* pruned, last the message lastEncoded
RECURSIVE DiffProtoFields(_, _, _, _, _, _, _)
DiffProtoFields(md, fields, k, m, last, changedFields, fieldsChangedToDefault) ==
    IF k > Len(fields)
    THEN [m |-> m, last |-> last, changedFields |-> changedFields,
          fieldsChangedToDefault |-> fieldsChangedToDefault]
    ELSE LET fieldNum == fields[k]
             field == FindFieldByNumber(md, fieldNum)
             prevVal == GetFieldByNumber(last, fieldNum)
             curVal == GetFieldByNumber(m, fieldNum)
         IN IF fieldsEqual(curVal, prevVal)
            THEN DiffProtoFields(md, fields, k + 1,
                     TryClearFieldByNumber(md, m, fieldNum), last,
                     changedFields, fieldsChangedToDefault)
            ELSE DiffProtoFields(md, fields, k + 1, m,
                     TrySetFieldByNumber(last, fieldNum, curVal),
                     Append(changedFields, fieldNum),
                     IF isDefaultValue(field, curVal)
                     THEN Append(fieldsChangedToDefault, fieldNum)
                     ELSE fieldsChangedToDefault)

\* encodeProtoValues with a slip: the fields changed to their default
\* value are not written
encodeProtoValues_NoBitset(e, m) ==
    IF Len(e.protoFields) = 0
    THEN [enc |-> [e EXCEPT !.stream = WriteBit(@, opCodeNoChange)],
          err |-> NoErr]
    ELSE LET e0 == IF e.lastEncoded.nil
                   THEN [e EXCEPT !.lastEncoded = NewMessage(e.schema)]
                   ELSE e
             d == DiffProtoFields(e.schema, e.protoFields, 1, m,
                                  e0.lastEncoded, <<>>, <<>>)
             e1 == [e0 EXCEPT !.lastEncoded = d.last]
             marshaled == MarshalAppend(e.schema, d.m)
             e2 == [e1 EXCEPT !.stream = WriteBit(@, opCodeChange)]
             e3 == [e2 EXCEPT !.stream = WriteBit(@,
                       opCodeNoFieldsSetToDefaultProtoMarshal)]
             e4 == encodeVarInt(e3, Len(marshaled))
         IN IF Len(d.changedFields) = 0
            THEN [enc |-> [e1 EXCEPT !.stream = WriteBit(@, opCodeNoChange)],
                  err |-> NoErr]
            ELSE [enc |-> [e4 EXCEPT !.stream = WriteBytes(@, marshaled)],
                  err |-> NoErr]

\* m is the unmarshalled message of this Encode call
encodeProtoValues(e, m) ==
    IF Len(e.protoFields) = 0
    THEN [enc |-> [e EXCEPT !.stream = WriteBit(@, opCodeNoChange)],
          err |-> NoErr]
    ELSE LET e0 == IF e.lastEncoded.nil
                   THEN [e EXCEPT !.lastEncoded = NewMessage(e.schema)]
                   ELSE e
             d == DiffProtoFields(e.schema, e.protoFields, 1, m,
                                  e0.lastEncoded, <<>>, <<>>)
             e1 == [e0 EXCEPT !.lastEncoded = d.last]
             marshaled == MarshalAppend(e.schema, d.m)
             e2 == [e1 EXCEPT !.stream = WriteBit(@, opCodeChange)]
             e3 == IF Len(d.fieldsChangedToDefault) > 0
                   THEN encodeBitset(
                            [e2 EXCEPT !.stream = WriteBit(@,
                                opCodeFieldsSetToDefaultProtoMarshal)],
                            d.fieldsChangedToDefault)
                   ELSE [e2 EXCEPT !.stream = WriteBit(@,
                            opCodeNoFieldsSetToDefaultProtoMarshal)]
             e4 == encodeVarInt(e3, Len(marshaled))
         IN IF Len(d.changedFields) = 0
            THEN [enc |-> [e1 EXCEPT !.stream = WriteBit(@, opCodeNoChange)],
                  err |-> NoErr]
            ELSE [enc |-> [e4 EXCEPT !.stream = WriteBytes(@, marshaled)],
                  err |-> NoErr]

\* encodeProto with a slip: the residual proto part is written before the
\* custom values
encodeProto_ProtoValuesFirst(e, m) ==
    LET p == encodeProtoValues(e, m)
        c == encodeCustomValues(Mark(e, p.enc, "proto", ""), m)
    IN IF p.err # NoErr THEN p ELSE c

encodeProto(e, m) ==
    LET c == encodeCustomValues(e, m)
        p == encodeProtoValues(c.enc, m)
    IN IF c.err # NoErr THEN c
       ELSE [enc |-> MarkField(c.enc, p.enc, "proto", "", 0, m.vals),
             err |-> p.err]

-----------------------------------------------------------------------------
(* Encode *)

\* writeControlPrefix with a slip: the schema bit is written before the
\* time-unit bit
writeControlPrefix_SwappedBits(e, needToEncodeSchema, needToEncodeTimeUnit) ==
    IF needToEncodeSchema \/ needToEncodeTimeUnit
    THEN [e EXCEPT !.stream =
             WriteBit(
                 WriteBit(
                     WriteBit(
                         WriteBit(@,
                             opCodeNoMoreDataOrTimeUnitChangeAndOrSchemaChange),
                         opCodeTimeUnitChangeAndOrSchemaChange),
                     IF needToEncodeSchema THEN opCodeSchemaChange
                     ELSE opCodeSchemaUnchanged),
                 IF needToEncodeTimeUnit THEN opCodeTimeUnitChange
                 ELSE opCodeTimeUnitUnchanged)]
    ELSE [e EXCEPT !.stream = WriteBit(@, opCodeMoreData)]

\* the control prefix: 1 1 t s when the time unit or the schema has to
\* be encoded, else the single bit 0
writeControlPrefix(e, needToEncodeSchema, needToEncodeTimeUnit) ==
    IF needToEncodeSchema \/ needToEncodeTimeUnit
    THEN [e EXCEPT !.stream =
             WriteBit(
                 WriteBit(
                     WriteBit(
                         WriteBit(@,
                             opCodeNoMoreDataOrTimeUnitChangeAndOrSchemaChange),
                         opCodeTimeUnitChangeAndOrSchemaChange),
                     IF needToEncodeTimeUnit THEN opCodeTimeUnitChange
                     ELSE opCodeTimeUnitUnchanged),
                 IF needToEncodeSchema THEN opCodeSchemaChange
                 ELSE opCodeSchemaUnchanged)]
    ELSE [e EXCEPT !.stream = WriteBit(@, opCodeMoreData)]

\* encodeControl with a slip: hasEncodedSchema is not set after the schema
\* block
encodeControl_SchemaNotMarked(e, timeUnit) ==
    LET needToEncodeSchema == ~e.hasEncodedSchema
        needToEncodeTimeUnit == timeUnit # e.timestampEncoder.TimeUnit
        e1 == Mark(e, writeControlPrefix(e, needToEncodeSchema,
                                         needToEncodeTimeUnit),
                   "prefix", timeUnit)
        w == WriteTimeUnit(e1.stream, e1.timestampEncoder, timeUnit)
        e2 == IF needToEncodeTimeUnit
              THEN Mark(e1, [e1 EXCEPT !.stream = w.stream,
                                       !.timestampEncoder = w.te],
                        "timeUnit", "")
              ELSE e1
    IN IF needToEncodeSchema
       THEN Mark(e2, encodeCustomSchemaTypes(e2), "schema", "")
       ELSE e2

\* encodeControl with a slip: the time-unit block is not written
encodeControl_NoTimeUnitBlock(e, timeUnit) ==
    LET needToEncodeSchema == ~e.hasEncodedSchema
        needToEncodeTimeUnit == timeUnit # e.timestampEncoder.TimeUnit
        e1 == Mark(e, writeControlPrefix(e, needToEncodeSchema,
                                         needToEncodeTimeUnit),
                   "prefix", timeUnit)
    IN IF needToEncodeSchema
       THEN [Mark(e1, encodeCustomSchemaTypes(e1), "schema", "")
                EXCEPT !.hasEncodedSchema = TRUE]
       ELSE e1

\* the control prefix, the time-unit block and the schema block
encodeControl(e, timeUnit) ==
    LET needToEncodeSchema == ~e.hasEncodedSchema
        needToEncodeTimeUnit == timeUnit # e.timestampEncoder.TimeUnit
        e1 == Mark(e, writeControlPrefix(e, needToEncodeSchema,
                                         needToEncodeTimeUnit),
                   "prefix", timeUnit)
        w == WriteTimeUnit(e1.stream, e1.timestampEncoder, timeUnit)
        e2 == IF needToEncodeTimeUnit
              THEN Mark(e1, [e1 EXCEPT !.stream = w.stream,
                                       !.timestampEncoder = w.te],
                        "timeUnit", "")
              ELSE e1
    IN IF needToEncodeSchema
       THEN [Mark(e2, encodeCustomSchemaTypes(e2), "schema", "")
                EXCEPT !.hasEncodedSchema = TRUE]
       ELSE e2

\* writeStreamHeaderIfFirst with a slip: the header is written whenever the
\* schema has not been encoded yet
writeStreamHeaderIfFirst_PerSchema(e) ==
    IF ~e.hasEncodedSchema THEN Mark(e, encodeStreamHeader(e), "header", "")
    ELSE e

\* the stream header, written by the Encode call that finds numEncoded = 0
writeStreamHeaderIfFirst(e) ==
    IF e.numEncoded = 0 THEN Mark(e, encodeStreamHeader(e), "header", "")
    ELSE e

\* header, control prefix, time-unit block, schema block and timestamp
encodeSampleHead(e, dp, timeUnit) ==
    LET e4 == encodeControl(writeStreamHeaderIfFirst(e), timeUnit)
        t == WriteTime(e4.stream, e4.timestampEncoder, dp.Timestamp, timeUnit)
    IN [enc |-> Mark(e4, [e4 EXCEPT !.stream = t.stream,
                                    !.timestampEncoder = t.te], "time", ""),
        err |-> t.err]

\* encodeSample with a slip: a failed timestamp write is returned without
\* being kept in hardErr
encodeSample_NoHardErr(e, dp, timeUnit, m, n) ==
    LET h == encodeSampleHead(e, dp, timeUnit)
        p == encodeProto(h.enc, m)
    IN IF h.err # NoErr
       THEN [enc |-> h.enc, err |-> errEncodingTimestamp(h.err[1])]
       ELSE [enc |-> [p.enc EXCEPT !.numEncoded = @ + 1,
                                   !.lastEncodedDP = dp,
                                   !.stats = @ + n],
             err |-> NoErr]

\* Encode from the first write on: every error is a hard error.  m is the
\* unmarshalled message and n the length of the annotation.
encodeSample(e, dp, timeUnit, m, n) ==
    LET h == encodeSampleHead(e, dp, timeUnit)
        p == encodeProto(h.enc, m)
    IN IF h.err # NoErr
       THEN [enc |-> [h.enc EXCEPT !.hardErr = h.err],
             err |-> errEncodingTimestamp(h.err[1])]
       ELSE IF p.err # NoErr
       THEN [enc |-> [p.enc EXCEPT !.hardErr = p.err],
             err |-> errEncodingProto(p.err[1])]
       ELSE [enc |-> [p.enc EXCEPT !.numEncoded = @ + 1,
                                   !.lastEncodedDP = dp,
                                   !.stats = @ + n],
             err |-> NoErr]

\* Encode with a slip: the stream header is written before the annotation
\* is checked
EncodeImpl_HeaderBeforeChecks(e, dp, timeUnit, protoBytes) ==
    LET dp0 == [dp EXCEPT !.Value = 0]
        u == Unmarshal(e.schema, protoBytes)
        eh == writeStreamHeaderIfFirst(e)
    IN IF isUsable(e) # NoErr THEN [enc |-> e, err |-> isUsable(e)]
       ELSE IF e.schema = NilSchema
       THEN [enc |-> e, err |-> errEncoderSchemaIsRequired]
       ELSE IF ~u.ok THEN [enc |-> eh, err |-> errUnmarshal]
       ELSE IF GetUnknownFields(u.msg) > 0
       THEN [enc |-> eh, err |-> errEncoderMessageHasUnknownFields]
       ELSE encodeSample(e, dp0, timeUnit, u.msg, Len(protoBytes))

\* Encode with a slip: the message is checked for unknown fields after the
\* head of the sample has been written
EncodeImpl_UnknownFieldsCheckedLate(e, dp, timeUnit, protoBytes) ==
    LET dp0 == [dp EXCEPT !.Value = 0]
        u == Unmarshal(e.schema, protoBytes)
    IN IF isUsable(e) # NoErr THEN [enc |-> e, err |-> isUsable(e)]
       ELSE IF e.schema = NilSchema
       THEN [enc |-> e, err |-> errEncoderSchemaIsRequired]
       ELSE IF ~u.ok THEN [enc |-> e, err |-> errUnmarshal]
       ELSE IF GetUnknownFields(u.msg) > 0
       THEN [enc |-> encodeSampleHead(e, dp0, timeUnit).enc,
             err |-> errEncoderMessageHasUnknownFields]
       ELSE encodeSample(e, dp0, timeUnit, u.msg, Len(protoBytes))

EncodeImpl(e, dp, timeUnit, protoBytes) ==
    LET dp0 == [dp EXCEPT !.Value = 0]
        u == Unmarshal(e.schema, protoBytes)
    IN IF isUsable(e) # NoErr THEN [enc |-> e, err |-> isUsable(e)]
       ELSE IF e.schema = NilSchema
       THEN [enc |-> e, err |-> errEncoderSchemaIsRequired]
       ELSE IF ~u.ok THEN [enc |-> e, err |-> errUnmarshal]
       ELSE IF GetUnknownFields(u.msg) > 0
       THEN [enc |-> e, err |-> errEncoderMessageHasUnknownFields]
       ELSE encodeSample(e, dp0, timeUnit, u.msg, Len(protoBytes))

-----------------------------------------------------------------------------
(* Lifecycle *)

\* resetSchema with a slip: hasEncodedSchema is left as it was
resetSchema_KeepsHasEncodedSchema(e, md) ==
    IF md = NilSchema
    THEN [e EXCEPT !.schema = md, !.protoFields = <<>>, !.customFields = <<>>,
                   !.lastEncoded = NilMessage]
    ELSE LET f == customAndProtoFields(e.customFields, e.protoFields, md)
         IN [e EXCEPT !.schema = md,
                      !.customFields = f.customFields,
                      !.protoFields = f.protoFields,
                      !.lastEncoded = NewMessage(md)]

resetSchema(e, md) ==
    IF md = NilSchema
    THEN [e EXCEPT !.schema = md, !.protoFields = <<>>, !.customFields = <<>>,
                   !.lastEncoded = NilMessage,
                   !.hasEncodedSchema = FALSE]
    ELSE LET f == customAndProtoFields(e.customFields, e.protoFields, md)
         IN [e EXCEPT !.schema = md,
                      !.customFields = f.customFields,
                      !.protoFields = f.protoFields,
                      !.lastEncoded = NewMessage(md),
                      !.hasEncodedSchema = FALSE]

\* SetSchema with a slip: the deploy ids are compared also when they are
\* empty
SetSchemaImpl_EmptyDeployIdCompared(e, descr) ==
    IF descr.nil
    THEN resetSchema([e EXCEPT !.schemaDesc = NilDescr], NilSchema)
    ELSE IF /\ ~e.schemaDesc.nil
            /\ e.schemaDesc.deployId = descr.deployId
    THEN e
    ELSE resetSchema([e EXCEPT !.schemaDesc = descr], descr.md)

SetSchemaImpl(e, descr) ==
    IF descr.nil
    THEN resetSchema([e EXCEPT !.schemaDesc = NilDescr], NilSchema)
    ELSE IF /\ ~e.schemaDesc.nil
            /\ descr.deployId # ""
            /\ e.schemaDesc.deployId = descr.deployId
    THEN e
    ELSE resetSchema([e EXCEPT !.schemaDesc = descr], descr.md)

\* stream.Reset(buffer) and stream.Discard() leave an empty stream
StreamReset(e) == [e EXCEPT !.stream = <<>>, !.parts = <<>>]

\* reset with a slip: the stream keeps its contents
reset_KeepsStream(e, start, capacity) ==
    LET e1 == [e EXCEPT
                  !.timestampEncoder =
                      NewTimestampEncoder(start, DefaultTimeUnit),
                  !.lastEncoded = NilMessage,
                  !.lastEncodedDP = ZeroDatapoint]
        f == customAndProtoFields(e1.customFields, e1.protoFields, e1.schema)
        e2 == IF e1.schema # NilSchema
              THEN [e1 EXCEPT !.customFields = f.customFields,
                              !.protoFields = f.protoFields]
              ELSE e1
    IN [e2 EXCEPT !.closed = FALSE, !.numEncoded = 0]

reset(e, start, capacity) ==
    LET e1 == [StreamReset(e) EXCEPT
                  !.timestampEncoder =
                      NewTimestampEncoder(start, DefaultTimeUnit),
                  !.lastEncoded = NilMessage,
                  !.lastEncodedDP = ZeroDatapoint]
        f == customAndProtoFields(e1.customFields, e1.protoFields, e1.schema)
        e2 == IF e1.schema # NilSchema
              THEN [e1 EXCEPT !.customFields = f.customFields,
                              !.protoFields = f.protoFields]
              ELSE e1
    IN [e2 EXCEPT !.closed = FALSE, !.numEncoded = 0]

ResetImpl(e, start, capacity, descr) ==
    reset(SetSchemaImpl(e, descr), start, capacity)

\* Close with a slip: a closed encoder is closed again
CloseImpl_NoClosedCheck(e) ==
    [StreamReset(ResetImpl(e, ZeroTime, 0, NilDescr))
        EXCEPT !.closed = TRUE, !.puts = @ + 1]

CloseImpl(e) ==
    IF e.closed THEN e
    ELSE [StreamReset(ResetImpl(e, ZeroTime, 0, NilDescr))
             EXCEPT !.closed = TRUE, !.puts = @ + 1]

\* segment(copy): the bytes of the stream; without copy the buffer is
\* taken from the stream
segment(e, copy) ==
    IF StreamLen(e.stream) = 0 THEN [enc |-> e, seg |-> <<>>]
    ELSE [enc |-> IF ~copy THEN StreamReset(e) ELSE e,
          seg |-> Rawbytes(e.stream)]

discard(e) == segment(e, FALSE)

\* Discard with a slip: the encoder is not closed
DiscardImpl_NoClose(e) ==
    LET d == discard(e) IN [enc |-> d.enc, seg |-> d.seg]

DiscardImpl(e) ==
    LET d == discard(e) IN [enc |-> CloseImpl(d.enc), seg |-> d.seg]

DiscardResetImpl(e, start, capacity, descr) ==
    LET d == discard(e)
    IN [enc |-> ResetImpl(d.enc, start, capacity, descr), seg |-> d.seg]

-----------------------------------------------------------------------------
(* Queries *)

\* Stream with a slip: the buffer is taken from the stream, not copied
StreamImpl_TakesBuffer(e) ==
    LET s == segment(e, FALSE)
    IN IF Len(s.seg) = 0 THEN [enc |-> s.enc, seg |-> <<>>, ok |-> FALSE]
       ELSE [enc |-> s.enc, seg |-> s.seg, ok |-> TRUE]

StreamImpl(e) ==
    LET s == segment(e, TRUE)
    IN IF Len(s.seg) = 0 THEN [enc |-> s.enc, seg |-> <<>>, ok |-> FALSE]
       ELSE [enc |-> s.enc, seg |-> s.seg, ok |-> TRUE]

NumEncodedImpl(e) == e.numEncoded

\* LastEncoded with a slip: numEncoded is not looked at
LastEncodedImpl_NumEncodedNotChecked(e) ==
    IF isUsable(e) # NoErr
    THEN [enc |-> e, dp |-> ZeroDatapoint, err |-> isUsable(e)]
    ELSE LET e1 == [e EXCEPT !.lastEncodedDP.Value = 0]
         IN [enc |-> e1, dp |-> e1.lastEncodedDP, err |-> NoErr]

LastEncodedImpl(e) ==
    IF isUsable(e) # NoErr
    THEN [enc |-> e, dp |-> ZeroDatapoint, err |-> isUsable(e)]
    ELSE IF e.numEncoded = 0
    THEN [enc |-> e, dp |-> ZeroDatapoint, err |-> errNoEncodedDatapoints]
    ELSE LET e1 == [e EXCEPT !.lastEncodedDP.Value = 0]
         IN [enc |-> e1, dp |-> e1.lastEncodedDP, err |-> NoErr]

LenImpl(e) == StreamLen(e.stream)

StatsImpl(e) ==
    [UncompressedBytes |-> e.stats, CompressedBytes |-> LenImpl(e)]

\* Bytes with a slip: the encoder is not checked for being usable
BytesImpl_NoUsableCheck(e) ==
    [bytes |-> Rawbytes(e.stream), err |-> NoErr]

BytesImpl(e) ==
    IF isUsable(e) # NoErr THEN [bytes |-> <<>>, err |-> isUsable(e)]
    ELSE [bytes |-> Rawbytes(e.stream), err |-> NoErr]

-----------------------------------------------------------------------------
(* The state machine *)

Values == {5}
Capacities == {64}

\* a sample that Encode has to accept under message descriptor md
ValidSample(md, timeUnit, protoBytes) ==
    /\ md # NilSchema
    /\ timeUnit # "none"
    /\ protoBytes \in AnnotationsFrom(md, FieldNums(md))

Ret(op) ==
    [op |-> op, err |-> NoErr, valid |-> FALSE, dp |-> ZeroDatapoint,
     descr |-> NilDescr, seg |-> <<>>, ok |-> TRUE, n |-> 0, m |-> 0,
     arg |-> ZeroDatapoint]

\* the variables hold the fields of the constructed encoder e
SetEncInit(e) ==
    /\ stream = e.stream
    /\ schemaDesc = e.schemaDesc
    /\ schema = e.schema
    /\ numEncoded = e.numEncoded
    /\ lastEncodedDP = e.lastEncodedDP
    /\ lastEncoded = e.lastEncoded
    /\ customFields = e.customFields
    /\ protoFields = e.protoFields
    /\ hardErr = e.hardErr
    /\ hasEncodedSchema = e.hasEncodedSchema
    /\ closed = e.closed
    /\ stats = e.stats
    /\ timestampEncoder = e.timestampEncoder
    /\ lruSize = e.lruSize
    /\ parts = e.parts
    /\ puts = e.puts

Init ==
    \E start \in Starts, size \in LRUSizes :
        /\ SetEncInit(NewEncoder(start, size))
        /\ ret = Ret("NewEncoder")

\* the step of an Encode call that has returned r for the datapoint dp
\* and an annotation of n bytes: the encoder is as the call leaves it, and
\* the caller sees the error
EncodeReturns(r, dp, valid, n) ==
    /\ SetEnc(r.enc)
    /\ ret' = [Ret("Encode") EXCEPT
                  !.err = r.err,
                  !.arg = dp,
                  !.n = IF r.err = NoErr THEN n ELSE 0,
                  !.valid = valid]

Encode ==
    \E ti \in TimeInputs, v \in Values, protoBytes \in Annotations :
        /\ stats + Len(protoBytes) <= MaxUncompressedBytes
        /\ LET dp == [Timestamp |-> ti[1], Value |-> v]
               timeUnit == ti[2]
               r == EncodeImpl(Enc, dp, timeUnit, protoBytes)
           IN EncodeReturns(r, dp, ValidSample(schema, timeUnit, protoBytes),
                            Len(protoBytes))

Stream ==
    LET r == StreamImpl(Enc)
    IN /\ ret' = [Ret("Stream") EXCEPT !.seg = r.seg, !.ok = r.ok]
       /\ SetEnc(r.enc)

NumEncoded ==
    /\ ret' = [Ret("NumEncoded") EXCEPT !.n = NumEncodedImpl(Enc)]
    /\ SetEnc(Enc)

LastEncoded ==
    LET r == LastEncodedImpl(Enc)
    IN /\ ret' = [Ret("LastEncoded") EXCEPT !.dp = r.dp, !.err = r.err]
       /\ SetEnc(r.enc)

Len_ ==
    /\ ret' = [Ret("Len") EXCEPT !.n = LenImpl(Enc)]
    /\ SetEnc(Enc)

Stats ==
    LET r == StatsImpl(Enc)
    IN /\ ret' = [Ret("Stats") EXCEPT !.n = r.UncompressedBytes,
                                      !.m = r.CompressedBytes]
       /\ SetEnc(Enc)

Bytes ==
    LET r == BytesImpl(Enc)
    IN /\ ret' = [Ret("Bytes") EXCEPT !.seg = r.bytes, !.err = r.err]
       /\ SetEnc(Enc)

Reset ==
    \E start \in Starts, capacity \in Capacities,
       descr \in Descrs \cup {NilDescr} :
        /\ SetEnc(ResetImpl(Enc, start, capacity, descr))
        /\ ret' = [Ret("Reset") EXCEPT !.descr = descr]

SetSchema ==
    \E descr \in Descrs \cup {NilDescr} :
        /\ SetEnc(SetSchemaImpl(Enc, descr))
        /\ ret' = [Ret("SetSchema") EXCEPT !.descr = descr]

Close ==
    /\ SetEnc(CloseImpl(Enc))
    /\ ret' = Ret("Close")

Discard ==
    LET r == DiscardImpl(Enc)
    IN /\ SetEnc(r.enc)
       /\ ret' = [Ret("Discard") EXCEPT !.seg = r.seg]

DiscardReset ==
    \E start \in Starts, capacity \in Capacities,
       descr \in Descrs \cup {NilDescr} :
        LET r == DiscardResetImpl(Enc, start, capacity, descr)
        IN /\ SetEnc(r.enc)
           /\ ret' = [Ret("DiscardReset") EXCEPT !.seg = r.seg,
                                                 !.descr = descr]

Next ==
    \/ Encode
    \/ Stream
    \/ NumEncoded
    \/ LastEncoded
    \/ Len_
    \/ Stats
    \/ Bytes
    \/ Reset
    \/ SetSchema
    \/ Close
    \/ Discard
    \/ DiscardReset

Spec == Init /\ [][Next]_vars

-----------------------------------------------------------------------------
(* The bytes dictionary: the encoder under a schema with one bytes field,  *)
(* written with more distinct literals than the dictionary holds.          *)

\* the largest configured ByteFieldDictionaryLRUSize
MaxDictSize == 4
\* the Encode calls in the life of the encoder
MaxWrites == 6

DescrL == [nil |-> FALSE, deployId |-> "L",
           md |-> << [num |-> 1, type |-> "bytes"] >>]
DictSizes == 1..MaxDictSize
\* one literal more than the largest dictionary holds; Sum64 of the first
\* and of the fifth collide
Literals == {<<k>> : k \in 1..(MaxDictSize + 1)}

\* history: the values that the accepted samples of the stream hold for
\* the custom field with number f, in the order of the samples
WrittenValues(ps, f) ==
    LET c == SelectSeq(ps, LAMBDA p : p.kind = "custom" /\ p.field = f)
    IN [k \in 1..Len(c) |-> c[k].val]

Range(s) == {s[k] : k \in 1..Len(s)}

InitDict ==
    \E start \in Starts, size \in DictSizes :
        /\ SetEncInit(NewEncoder(start, size))
        /\ ret = Ret("NewEncoder")

\* Encode of a sample whose bytes field holds a literal that the stream
\* holds already or the next literal that it does not hold
EncodeLiteral ==
    \E b \in Literals, v \in Values :
        LET protoBytes == MarshalField(1, "bytes", b)
            written == Range(WrittenValues(parts, 1))
            dp == [Timestamp |-> 1, Value |-> v]
        IN /\ stats + Len(protoBytes) <= MaxWrites * Len(protoBytes)
           /\ b \in written \cup {<<Cardinality(written) + 1>>}
           /\ EncodeReturns(EncodeImpl(Enc, dp, DefaultTimeUnit, protoBytes),
                            dp, ValidSample(schema, DefaultTimeUnit, protoBytes),
                            Len(protoBytes))

ResetDict ==
    \E start \in Starts, capacity \in Capacities :
        /\ stats < MaxWrites * Len(MarshalField(1, "bytes", <<1>>))
        /\ SetEnc(ResetImpl(Enc, start, capacity, DescrL))
        /\ ret' = [Ret("Reset") EXCEPT !.descr = DescrL]

DiscardResetDict ==
    \E start \in Starts, capacity \in Capacities :
        LET r == DiscardResetImpl(Enc, start, capacity, DescrL)
        IN /\ stats < MaxWrites * Len(MarshalField(1, "bytes", <<1>>))
           /\ SetEnc(r.enc)
           /\ ret' = [Ret("DiscardReset") EXCEPT !.seg = r.seg,
                                                 !.descr = DescrL]

NextDict ==
    \/ EncodeLiteral
    \/ ResetDict
    \/ DiscardResetDict
    \/ Close
    \/ Discard

SpecDict == InitDict /\ [][NextDict]_vars

-----------------------------------------------------------------------------
(* The residual proto part: the encoder under the schemas with fields that *)
(* have no custom coder, written with every message of the schema.         *)

\* the samples of a stream
MaxSamples == 3
\* the annotation bytes accepted in the life of the encoder
MaxResidualBytes == 6

ResidualDescrs == {DescrB, DescrE}

EncodeResidual ==
    \E d \in ResidualDescrs, v \in Values :
        \E protoBytes \in ValidAnnotations(d) :
            LET dp == [Timestamp |-> 1, Value |-> v]
            IN /\ numEncoded < MaxSamples
               /\ stats + Len(protoBytes) <= MaxResidualBytes
               /\ schemaDesc = d
               /\ EncodeReturns(
                      EncodeImpl(Enc, dp, DefaultTimeUnit, protoBytes), dp,
                      ValidSample(schema, DefaultTimeUnit, protoBytes),
                      Len(protoBytes))

ResetResidual ==
    \E start \in Starts, capacity \in Capacities, descr \in ResidualDescrs :
        /\ SetEnc(ResetImpl(Enc, start, capacity, descr))
        /\ ret' = [Ret("Reset") EXCEPT !.descr = descr]

SetSchemaResidual ==
    \E descr \in ResidualDescrs :
        /\ SetEnc(SetSchemaImpl(Enc, descr))
        /\ ret' = [Ret("SetSchema") EXCEPT !.descr = descr]

NextResidual ==
    \/ EncodeResidual
    \/ ResetResidual
    \/ SetSchemaResidual

SpecResidual == Init /\ [][NextResidual]_vars

-----------------------------------------------------------------------------
(* encodeBitset on its own: lists of field numbers, with duplicates and  *)
(* in any order, written to a stream that holds nothing or one bitset    *)

MaxBitsetValue == 4
MaxBitsetValues == 3
MaxBitsetStream == 12

\* the non-empty lists of 1-indexed field numbers
BitsetInputs ==
    UNION {[1..n -> 1..MaxBitsetValue] : n \in 1..MaxBitsetValues}

EncodeBitset ==
    \E values \in BitsetInputs :
        /\ Len(stream) <= MaxBitsetStream
        /\ SetEnc(encodeBitset(Enc, values))
        /\ ret' = [Ret("encodeBitset") EXCEPT !.seg = values]

NextBitset == EncodeBitset

SpecBitset == Init /\ [][NextBitset]_vars

-----------------------------------------------------------------------------
(* Properties *)

SoftErrors == {errUnmarshal, errEncoderMessageHasUnknownFields}
HardErrorKinds == {"errEncodingTimestamp", "errEncodingProto"}

\* the encoder e accepts every valid sample
AcceptsValidSamples(e) ==
    \A ti \in TimeInputs, v \in Values, protoBytes \in Annotations :
        ValidSample(e.schema, ti[2], protoBytes) =>
            EncodeImpl(e, [Timestamp |-> ti[1], Value |-> v], ti[2],
                       protoBytes).err = NoErr

\* C1: an Encode call that fails because the annotation cannot be
\* unmarshalled or carries unknown fields leaves the stream, numEncoded,
\* lastEncodedDP, uncompressedBytes, hasEncodedSchema and hardErr as they
\* were (no header is written when it is the first call), and the encoder
\* still accepts every valid sample.
C1_SoftErrorChangesNothing ==
    [][(ret'.op = "Encode" /\ ret'.err \in SoftErrors) =>
          /\ stream' = stream
          /\ numEncoded' = numEncoded
          /\ lastEncodedDP' = lastEncodedDP
          /\ stats' = stats
          /\ hasEncodedSchema' = hasEncodedSchema
          /\ hardErr' = hardErr
          /\ hardErr' = NoErr
          /\ AcceptsValidSamples(Enc')]_vars

\* a first Encode call was rejected for unknown fields
C1_Witness ==
    /\ ret.op = "Encode"
    /\ ret.err = errEncoderMessageHasUnknownFields
    /\ schema # NilSchema
    /\ numEncoded = 0
    /\ stream = <<>>

\* C2: an Encode call that changes the stream length either succeeds and
\* adds one to numEncoded, or leaves hardErr set; no Encode call returns an
\* error after writing bits with hardErr still nil.
C2_WrittenBitsMeanSuccessOrHardErr ==
    [][ret'.op = "Encode" =>
          /\ Len(stream') # Len(stream) =>
                \/ ret'.err = NoErr /\ numEncoded' = numEncoded + 1
                \/ hardErr' # NoErr
          /\ (ret'.err # NoErr /\ stream' # stream) => hardErr' # NoErr]_vars

\* an Encode call wrote bits and failed on the timestamp
C2_Witness ==
    /\ ret.op = "Encode"
    /\ ret.err[1] = "errEncodingTimestamp"
    /\ hardErr # NoErr
    /\ Len(stream) > 0

\* an Encode call failed after its control prefix was written
HardFailure == ret'.op = "Encode" /\ ret'.err[1] \in HardErrorKinds

\* C3 as the claim states it: once an Encode call failed after its control
\* prefix was written, hardErr stays set and every later Encode call returns
\* the error that wraps the cause, writes no bits and leaves numEncoded as
\* it was, as long as no Reset or DiscardReset is performed.
C3_LaterEncodeWrapsCause ==
    [][/\ HardFailure => hardErr' # NoErr /\ ret'.err[2] = hardErr'[1]
       /\ (hardErr # NoErr /\ ret'.op \notin {"Reset", "DiscardReset"}) =>
             /\ hardErr' = hardErr
             /\ ret'.op = "Encode" =>
                   /\ ret'.err = errHardErr(hardErr[1])
                   /\ stream' = stream
                   /\ numEncoded' = numEncoded]_vars

\* C3: once an Encode call failed after its control prefix was written,
\* hardErr stays set and every later Encode call fails, writes no bits and
\* leaves numEncoded as it was, as long as no Reset or DiscardReset is
\* performed; the error wraps the cause while the encoder is open and is
\* errEncoderClosed once Close or Discard has closed it.
C3_HardErrIsSticky ==
    [][/\ HardFailure => hardErr' # NoErr /\ ret'.err[2] = hardErr'[1]
       /\ (hardErr # NoErr /\ ret'.op \notin {"Reset", "DiscardReset"}) =>
             /\ hardErr' = hardErr
             /\ ret'.op = "Encode" =>
                   /\ ret'.err = IF closed THEN errEncoderClosed
                                  ELSE errHardErr(hardErr[1])
                   /\ stream' = stream
                   /\ numEncoded' = numEncoded]_vars

\* an Encode call on an open encoder was refused because of an earlier
\* hard error
C3_Witness ==
    /\ ret.op = "Encode"
    /\ hardErr # NoErr
    /\ ~closed
    /\ ret.err = errHardErr(hardErr[1])
    /\ Len(stream) > 0

\* C4: after Reset with a non-nil descr, hardErr is nil and the encoder
\* accepts every valid sample; LastEncoded and Bytes do not report it as
\* unusable.
C4_ResetClearsHardErr ==
    (ret.op = "Reset" /\ ~ret.descr.nil) =>
        /\ hardErr = NoErr
        /\ AcceptsValidSamples(Enc)
        /\ BytesImpl(Enc).err = NoErr
        /\ LastEncodedImpl(Enc).err \in {NoErr, errNoEncodedDatapoints}

\* what a caller sees of encoder e: the results of the queries and of the
\* next Encode call
Observed(e) ==
    [numEncoded |-> NumEncodedImpl(e),
     stats |-> StatsImpl(e),
     lastEncoded |-> [dp |-> LastEncodedImpl(e).dp,
                      err |-> LastEncodedImpl(e).err],
     bytes |-> BytesImpl(e),
     stream |-> [seg |-> StreamImpl(e).seg, ok |-> StreamImpl(e).ok],
     encode |-> [ti \in TimeInputs, protoBytes \in Annotations |->
                    LET r == EncodeImpl(e, [Timestamp |-> ti[1], Value |-> 5],
                                        ti[2], protoBytes)
                    IN [err |-> r.err, stream |-> r.enc.stream,
                        stats |-> StatsImpl(r.enc)]]]

\* C5: after Reset(start, capacity, descr) the encoder is observed as the
\* encoder NewEncoder(start, opts) followed by SetSchema(descr) is: the
\* same errors, stream bits, NumEncoded, Stats and LastEncoded results.
C5_ResetEqualsFresh ==
    ret.op = "Reset" =>
        Observed(Enc) =
            Observed(SetSchemaImpl(NewEncoder(ZeroTime, lruSize), ret.descr))

\* C6 as the claim states it: numEncoded = 0 implies that the stream is
\* empty.
C6_NoSamplesMeansEmptyStream == numEncoded = 0 => Len(stream) = 0

\* C6: numEncoded = 0 implies that the stream is empty unless an Encode
\* call has hard-failed (hardErr is set).
C6_NoSamplesNoHardErrMeansEmptyStream ==
    (numEncoded = 0 /\ hardErr = NoErr) => Len(stream) = 0

\* DiscardReset handed out a stream with samples and left an empty one
C6_Witness ==
    /\ ret.op = "DiscardReset"
    /\ Len(ret.seg) > 0
    /\ numEncoded = 0
    /\ hardErr = NoErr
    /\ stream = <<>>

NonLifecycleOps ==
    {"Encode", "LastEncoded", "Bytes", "Stream", "Len", "NumEncoded", "Stats"}

C8_PreconditionOrder ==
    [][ret'.op = "Encode" =>
          /\ closed => ret'.err = errEncoderClosed
          /\ (~closed /\ hardErr # NoErr) =>
                ret'.err = errHardErr(hardErr[1])
          /\ (~closed /\ hardErr = NoErr /\ schema = NilSchema) =>
                ret'.err = errEncoderSchemaIsRequired
          /\ (closed \/ hardErr # NoErr \/ schema = NilSchema) => Enc' = Enc
          /\ (/\ \/ ret.op = "NewEncoder"
                 \/ (ret.op \in {"SetSchema", "Reset"} /\ ret.descr.nil)
              /\ ~closed /\ hardErr = NoErr) =>
                ret'.err = errEncoderSchemaIsRequired
          /\ (/\ ret.op = "SetSchema" /\ ~ret.descr.nil
              /\ ~closed /\ hardErr = NoErr /\ ret'.valid) =>
                ret'.err = NoErr]_vars

\* Encode on a closed, hard-failed encoder without schema
C8_Witness ==
    /\ ret.op = "Encode"
    /\ ret.err = errEncoderClosed
    /\ closed
    /\ hardErr # NoErr
    /\ schema = NilSchema

\* the bits of part p of stream s
PartBits(s, p) == SubSeq(s, p.pos + 1, p.pos + p.len)

BitOf(b) == IF b THEN 1 ELSE 0

\* C9: the control prefix of a sample is the bit 0 exactly when
\* hasEncodedSchema is true and the requested time unit is that of the
\* timestamp coder, else 1 1 t s with t = 1 iff the time unit differs and
\* s = 1 iff hasEncodedSchema was false; no prefix is 1 1 0 0 or starts
\* with 1 0.
C9_ControlPrefix ==
    [][(ret'.op = "Encode" /\ stream' # stream) =>
          /\ Len(parts') > Len(parts)
          /\ \E k \in (Len(parts) + 1)..Len(parts') :
                /\ parts'[k].kind = "prefix"
                /\ \A j \in (Len(parts) + 1)..Len(parts') :
                      parts'[j].kind = "prefix" => j = k
                /\ LET t == parts'[k].unit # timestampEncoder.TimeUnit
                       s == ~hasEncodedSchema
                       bits == PartBits(stream', parts'[k])
                   IN /\ bits = IF ~t /\ ~s THEN <<0>>
                                ELSE <<1, 1, BitOf(t), BitOf(s)>>
                      /\ bits # <<1, 1, 0, 0>>
                      /\ ~(Len(bits) >= 2 /\ bits[1] = 1 /\ bits[2] = 0)]_vars

\* the second sample of a stream changed the time unit under the schema
\* already encoded: its prefix is 1 1 1 0
C9_Witness ==
    /\ ret.op = "Encode"
    /\ ret.err = NoErr
    /\ numEncoded = 2
    /\ \E k \in 1..Len(parts) :
          /\ parts[k].kind = "prefix"
          /\ parts[k].sample = 2
          /\ PartBits(stream, parts[k]) = <<1, 1, 1, 0>>

StreamHeaderBits ==
    BytesToBits(PutUvarint(currentEncodingSchemeVersion) \o PutUvarint(lruSize))

\* C10: the parts written since the stream was last emptied make up the
\* stream; the stream header is the first of them, at bit offset 0, holds
\* varint(1) varint(lruSize), is followed by the control prefix of the
\* first sample and is not written a second time.
C10_HeaderOnceAtOffsetZero ==
    /\ \A k \in 1..Len(parts) :
          /\ parts[k].pos = IF k = 1 THEN 0
                            ELSE parts[k - 1].pos + parts[k - 1].len
          /\ parts[k].kind = "header" =>
                /\ k = 1
                /\ PartBits(stream, parts[k]) = StreamHeaderBits
          /\ (k = 2) => parts[k].kind = "prefix"
    /\ Len(stream) > 0 =>
          /\ Len(parts) >= 2
          /\ parts[1].kind = "header"
          /\ parts[Len(parts)].pos + parts[Len(parts)].len = Len(stream)
    /\ Len(stream) = 0 => parts = <<>>

\* a second sample was encoded after SetSchema changed the schema: the
\* stream holds two schema blocks and one header
C10_Witness ==
    /\ ret.op = "Encode"
    /\ ret.err = NoErr
    /\ numEncoded = 2
    /\ Cardinality({k \in 1..Len(parts) : parts[k].kind = "schema"}) = 2
    /\ Cardinality({k \in 1..Len(parts) : parts[k].kind = "header"}) = 1

\* the parts that the step has added to the history
NewParts == SubSeq(parts', Len(parts) + 1, Len(parts'))

\* the parts of the sample that the step has written: NewParts without
\* the stream header
SampleParts ==
    IF NewParts # <<>> /\ NewParts[1].kind = "header" THEN Tail(NewParts)
    ELSE NewParts

\* an Encode call has returned success
Accepted == ret'.op = "Encode" /\ ret'.err = NoErr

\* C11: the parts of an accepted sample are, in this order and without
\* anything between them, the control prefix, the time-unit block iff the
\* time-unit bit is 1, the schema block iff the schema bit is 1, the
\* timestamp, the value of every custom field once, in the order of
\* customFields, which is ascending in the field number, and the residual
\* proto part.
C11_PartsInOrder ==
    [][Accepted =>
          LET prefix == PartBits(stream', SampleParts[1])
              t == Len(prefix) = 4 /\ prefix[3] = 1
              s == Len(prefix) = 4 /\ prefix[4] = 1
              n == Len(NewParts)
          IN /\ SampleParts # <<>>
             /\ [i \in 1..Len(SampleParts) |->
                    <<SampleParts[i].kind, SampleParts[i].field>>]
                = <<<<"prefix", 0>>>>
                  \o (IF t THEN <<<<"timeUnit", 0>>>> ELSE <<>>)
                  \o (IF s THEN <<<<"schema", 0>>>> ELSE <<>>)
                  \o <<<<"time", 0>>>>
                  \o [i \in 1..Len(customFields') |->
                         <<"custom", customFields'[i].fieldNum>>]
                  \o <<<<"proto", 0>>>>
             /\ \A i \in 1..n :
                   /\ NewParts[i].len > 0
                   /\ NewParts[i].pos =
                         IF i = 1 THEN Len(stream)
                         ELSE NewParts[i - 1].pos + NewParts[i - 1].len
             /\ NewParts[n].pos + NewParts[n].len = Len(stream')
             /\ \A i, j \in 1..Len(customFields') :
                   i < j => customFields'[i].fieldNum < customFields'[j].fieldNum
      ]_vars

\* a first sample with both blocks and two custom fields
C11_Witness ==
    /\ ret.op = "Encode"
    /\ ret.err = NoErr
    /\ Len(parts) = 8
    /\ parts[3].kind = "timeUnit"
    /\ parts[4].kind = "schema"
    /\ parts[6].kind = "custom" /\ parts[6].field = 1
    /\ parts[7].kind = "custom" /\ parts[7].field = 3
    /\ parts[8].kind = "proto"

\* the descriptor has the non-empty deploy id of the encoder's descriptor
SameDeployId(descr) ==
    /\ ~descr.nil
    /\ ~schemaDesc.nil
    /\ descr.deployId # ""
    /\ descr.deployId = schemaDesc.deployId

\* an accepted sample of an encoder with hasEncodedSchema false has the
\* schema bit 1 and a schema block, and hasEncodedSchema stays false until
\* an Encode call writes to the stream
SchemaPathFires ==
    /\ (Accepted /\ ~hasEncodedSchema) =>
          /\ PartBits(stream', SampleParts[1]) \in {<<1, 1, 0, 1>>, <<1, 1, 1, 1>>}
          /\ \E i \in 1..Len(SampleParts) : SampleParts[i].kind = "schema"
    /\ (~hasEncodedSchema /\ ~(ret'.op = "Encode" /\ stream' # stream)) =>
          ~hasEncodedSchema'

\* C12 as the claim states it: after any SetSchema call hasEncodedSchema
\* is false, and the next accepted sample has the schema bit 1 and a schema
\* block.
C12_AnySetSchemaClearsHasEncodedSchema ==
    [][/\ ret'.op = "SetSchema" => ~hasEncodedSchema'
       /\ SchemaPathFires]_vars

\* C12: after a SetSchema call whose descriptor does not have the
\* non-empty deploy id of the current descriptor hasEncodedSchema is false,
\* and the next accepted sample has the schema bit 1 and a schema block; a
\* SetSchema call with the current non-empty deploy id leaves
\* hasEncodedSchema as it was.
C12_SetSchemaClearsHasEncodedSchema ==
    [][/\ (ret'.op = "SetSchema" /\ ~SameDeployId(ret'.descr)) =>
             ~hasEncodedSchema'
       /\ (ret'.op = "SetSchema" /\ SameDeployId(ret'.descr)) =>
             hasEncodedSchema' = hasEncodedSchema
       /\ SchemaPathFires]_vars

\* SetSchema has changed the schema of a stream with one sample
C12_Witness ==
    /\ ret.op = "SetSchema"
    /\ ~ret.descr.nil
    /\ numEncoded = 1
    /\ Len(stream) > 0
    /\ ~hasEncodedSchema

\* C13: SetSchema with the non-empty deploy id of the current descriptor
\* changes nothing (schema, customFields with the bytes dictionaries,
\* protoFields, lastEncoded, hasEncodedSchema); SetSchema with a descriptor
\* of an empty deploy id, or without a current descriptor, classifies the
\* fields of the descriptor anew and sets hasEncodedSchema to false.
C13_SetSchemaNoopOnSameDeployId ==
    [][ret'.op = "SetSchema" =>
          /\ SameDeployId(ret'.descr) => Enc' = Enc
          /\ (~ret'.descr.nil /\ (ret'.descr.deployId = "" \/ schemaDesc.nil)) =>
                LET f == customAndProtoFields(<<>>, <<>>, ret'.descr.md)
                IN /\ schemaDesc' = ret'.descr
                   /\ schema' = ret'.descr.md
                   /\ customFields' = f.customFields
                   /\ protoFields' = f.protoFields
                   /\ lastEncoded' = NewMessage(ret'.descr.md)
                   /\ ~hasEncodedSchema'
                   /\ stream' = stream /\ numEncoded' = numEncoded]_vars

\* SetSchema with the current deploy id on an encoder that has written the
\* schema and holds a value in a bytes dictionary
C13_Witness ==
    /\ ret.op = "SetSchema"
    /\ ~ret.descr.nil
    /\ ret.descr.deployId # ""
    /\ hasEncodedSchema
    /\ numEncoded = 1
    /\ \E i \in 1..Len(customFields) :
          /\ customFields[i].fieldType = bytesField
          /\ Len(customFields[i].bytesFieldDict) > 0

\* the first bit that the next Encode call with time unit u and a valid
\* annotation writes to the stream of encoder e is the bit 0
NextSampleStartsWithZero(e, u) ==
    \A ti \in TimeInputs, protoBytes \in Annotations :
        (ti[2] = u /\ ValidSample(e.schema, u, protoBytes)) =>
            LET r == EncodeImpl(e, [Timestamp |-> ti[1], Value |-> 5], u,
                                protoBytes)
            IN /\ r.err = NoErr
               /\ r.enc.stream[Len(e.stream) + 1] = opCodeMoreData

\* the schema block of the custom fields cfs
SchemaBlock(cfs) ==
    encodeCustomSchemaTypes(
        [NewEncoder(ZeroTime, lruSize) EXCEPT !.customFields = cfs]).stream

\* C14: SetSchema with a different deploy id after at least one accepted
\* sample writes nothing and leaves numEncoded; the next Encode call with
\* an unchanged time unit writes the prefix 1 1 0 1 and the schema block of
\* the new schema, writes no stream header, adds one to numEncoded and sets
\* hasEncodedSchema, so that the sample after it starts with the bit 0.
C14_SchemaSwapMidStream ==
    [][/\ (/\ ret'.op = "SetSchema"
           /\ ~ret'.descr.nil
           /\ ~schemaDesc.nil
           /\ ret'.descr.deployId # schemaDesc.deployId
           /\ numEncoded >= 1) =>
             /\ ~hasEncodedSchema'
             /\ stream' = stream
             /\ numEncoded' = numEncoded
             /\ timestampEncoder' = timestampEncoder
       /\ (/\ ret.op = "SetSchema"
           /\ ~ret.descr.nil
           /\ numEncoded >= 1
           /\ ~hasEncodedSchema
           /\ Accepted
           /\ SampleParts[1].unit = timestampEncoder.TimeUnit) =>
             /\ NewParts[1].kind = "prefix"
             /\ PartBits(stream', NewParts[1]) = <<1, 1, 0, 1>>
             /\ NewParts[2].kind = "schema"
             /\ PartBits(stream', NewParts[2]) = SchemaBlock(customFields')
             /\ \A i \in 1..Len(parts') : parts'[i].kind = "header" => i = 1
             /\ numEncoded' = numEncoded + 1
             /\ hasEncodedSchema'
             /\ NextSampleStartsWithZero(Enc', SampleParts[1].unit)]_vars

\* the second sample of a stream was accepted after a schema swap: its
\* prefix is 1 1 0 1
C14_Witness ==
    /\ ret.op = "Encode"
    /\ ret.err = NoErr
    /\ numEncoded = 2
    /\ hasEncodedSchema
    /\ \E k \in 1..Len(parts) :
          /\ parts[k].kind = "prefix"
          /\ parts[k].sample = 2
          /\ PartBits(stream, parts[k]) = <<1, 1, 0, 1>>
          /\ parts[k + 1].kind = "schema"

\* C15: an Encode call with a time unit that differs from the timestamp
\* coder's, on an encoder whose schema block is written, starts the sample
\* with 1 1 1 0 and the time-unit block and writes no schema block; the
\* unit becomes the coder's unit, so that an accepted sample is followed by
\* samples of the same unit that start with the bit 0.
C15_TimeUnitChangeOnly ==
    [][(/\ ret'.op = "Encode"
        /\ stream' # stream
        /\ hasEncodedSchema
        /\ SampleParts[1].unit # timestampEncoder.TimeUnit) =>
          LET u == SampleParts[1].unit
          IN /\ SampleParts[1].kind = "prefix"
             /\ PartBits(stream', SampleParts[1]) = <<1, 1, 1, 0>>
             /\ SampleParts[2].kind = "timeUnit"
             /\ PartBits(stream', SampleParts[2]) = BytesToBits(<<UnitByte(u)>>)
             /\ SampleParts[3].kind = "time"
             /\ \A i \in 1..Len(SampleParts) : SampleParts[i].kind # "schema"
             /\ timestampEncoder'.TimeUnit = u
             /\ Accepted => NextSampleStartsWithZero(Enc', u)]_vars

\* the second sample of a stream was accepted with a new time unit and a
\* time-unit block
C15_Witness ==
    /\ ret.op = "Encode"
    /\ ret.err = NoErr
    /\ numEncoded = 2
    /\ timestampEncoder.TimeUnit = "ms"
    /\ \E k \in 1..Len(parts) :
          /\ parts[k].kind = "timeUnit"
          /\ parts[k].sample = 2
          /\ parts[k + 1].kind = "time"

\* every Encode call on encoder e fails with errEncoderClosed
RefusesAsClosed(e) ==
    \A ti \in TimeInputs, protoBytes \in Annotations :
        EncodeImpl(e, [Timestamp |-> ti[1], Value |-> 5], ti[2],
                   protoBytes).err = errEncoderClosed

\* a closed encoder stays closed, and refuses Encode, until Reset or
\* DiscardReset is called
ClosedUntilReset ==
    /\ (closed /\ ret'.op \notin {"Reset", "DiscardReset"}) => closed'
    /\ (closed /\ ret'.op = "Encode") => ret'.err = errEncoderClosed
    /\ ret'.op \in {"Reset", "DiscardReset"} => ~closed'

\* Discard returns the bytes of the stream, also those of a hard-failed
\* sample, and leaves a closed encoder with an empty stream and no samples
DiscardYieldsStream ==
    ret'.op = "Discard" =>
        /\ ret'.seg = Rawbytes(stream)
        /\ closed'
        /\ stream' = <<>>
        /\ numEncoded' = 0
        /\ hardErr' = hardErr
        /\ RefusesAsClosed(Enc')

\* C16 as the claim states it: Discard returns the bytes written to the
\* stream so far and leaves the encoder closed, with an empty stream,
\* numEncoded = 0 and no schema; a later Encode fails with
\* errEncoderClosed until Reset is called.
C16_DiscardLeavesNoSchema ==
    [][/\ DiscardYieldsStream
       /\ ret'.op = "Discard" => schema' = NilSchema /\ schemaDesc'.nil
       /\ ClosedUntilReset]_vars

\* C16: Discard returns the bytes written to the stream so far and leaves
\* the encoder closed, with an empty stream and numEncoded = 0; the schema
\* is removed when the encoder was open, while Discard on a closed encoder
\* returns no bytes and changes nothing (a schema set after Close stays); a
\* later Encode fails with errEncoderClosed until Reset is called.
C16_DiscardClosesEncoder ==
    [][/\ DiscardYieldsStream
       /\ (ret'.op = "Discard" /\ ~closed) =>
             schema' = NilSchema /\ schemaDesc'.nil
       /\ (ret'.op = "Discard" /\ closed) => Enc' = Enc /\ ret'.seg = <<>>
       /\ ClosedUntilReset]_vars

\* Discard on a hard-failed encoder has returned the partial stream
C16_Witness ==
    /\ ret.op = "Discard"
    /\ Len(ret.seg) > 0
    /\ hardErr # NoErr
    /\ closed
    /\ stream = <<>>
    /\ schema = NilSchema

\* the bits of the stream that the accepted samples consist of: the parts
\* of the samples 1..numEncoded (the stream header belongs to sample 1)
AcceptedBits ==
    LET good == {k \in 1..Len(parts) : parts[k].sample <= numEncoded}
        last == CHOOSE k \in good : \A j \in good : j <= k
    IN IF good = {} THEN <<>>
       ELSE SubSeq(stream, 1, parts[last].pos + parts[last].len)

\* C17 as the claim states it: the bytes that Stream, Bytes and Discard
\* return are the bits of the accepted samples of the current stream; no
\* bit of a failed Encode call is among them.
C17_OnlyAcceptedBitsObserved ==
    [][/\ ret'.op = "Stream" =>
             /\ ret'.seg = Rawbytes(AcceptedBits)
             /\ ret'.ok = (AcceptedBits # <<>>)
       /\ (ret'.op = "Bytes" /\ ret'.err = NoErr) =>
             ret'.seg = Rawbytes(AcceptedBits)
       /\ ret'.op = "Discard" => ret'.seg = Rawbytes(AcceptedBits)]_vars

\* C17: Stream and Discard return, and Bytes returns on an encoder that is
\* usable, the bytes of the stream; while hardErr is nil these are the bits
\* of the accepted samples of the current stream, in call order, and no bit
\* of a soft-failed Encode call; after a hard failure the stream, and with
\* it what Stream and Discard return, also holds the bits of the sample
\* that failed, and Bytes returns the error.
C17_ObservedBytesAreTheStream ==
    [][/\ hardErr = NoErr => AcceptedBits = stream
       /\ ret'.op = "Stream" =>
             /\ ret'.seg = Rawbytes(stream)
             /\ ret'.ok = (stream # <<>>)
       /\ ret'.op = "Discard" => ret'.seg = Rawbytes(stream)
       /\ ret'.op = "Bytes" =>
             IF closed \/ hardErr # NoErr
             THEN ret'.err # NoErr /\ ret'.seg = <<>>
             ELSE ret'.err = NoErr /\ ret'.seg = Rawbytes(stream)
       /\ (ret'.op = "Encode" /\ ret'.err # NoErr /\ hardErr' = NoErr) =>
             stream' = stream]_vars

\* Stream has returned an accepted sample and the bits of a sample that
\* hard-failed after it
C17_Witness ==
    /\ ret.op = "Stream"
    /\ hardErr # NoErr
    /\ numEncoded = 1
    /\ Len(AcceptedBits) > 0
    /\ Len(stream) > Len(AcceptedBits)
    /\ ret.seg = Rawbytes(stream)

\* C18: DiscardReset(start, capacity, descr) returns the segment that
\* Discard returns and leaves the encoder as Discard followed by
\* Reset(start, capacity, descr) leaves it: schema, field classification,
\* hasEncodedSchema, numEncoded, closed, hardErr and stream.
C18_DiscardResetIsDiscardThenReset ==
    [][ret'.op = "DiscardReset" =>
          \A start \in Starts, capacity \in Capacities :
              LET d == DiscardImpl(Enc)
                  r == ResetImpl(d.enc, start, capacity, ret'.descr)
              IN /\ ret'.seg = d.seg
                 /\ schemaDesc' = r.schemaDesc
                 /\ schema' = r.schema
                 /\ customFields' = r.customFields
                 /\ protoFields' = r.protoFields
                 /\ hasEncodedSchema' = r.hasEncodedSchema
                 /\ numEncoded' = r.numEncoded
                 /\ closed' = r.closed
                 /\ hardErr' = r.hardErr
                 /\ stream' = r.stream]_vars

\* C19: Close on a closed encoder changes nothing and puts nothing into
\* the pool; every operation puts the encoder into the pool once when it
\* takes it from open to closed and not at all otherwise; a closed encoder
\* stays closed, with Encode, LastEncoded and Bytes failing with
\* errEncoderClosed, until Reset or DiscardReset is called.
C19_CloseIsIdempotent ==
    [][/\ (ret'.op = "Close" /\ closed) => Enc' = Enc /\ puts' = 0
       /\ ret'.op = "Close" => closed'
       /\ puts' = IF ~closed /\ closed' THEN 1 ELSE 0
       /\ (closed /\ ret'.op \in {"Encode", "LastEncoded", "Bytes"}) =>
             ret'.err = errEncoderClosed
       /\ ClosedUntilReset]_vars

\* Close on a closed encoder
C19_Witness ==
    /\ ret.op = "Close"
    /\ closed
    /\ puts = 0

\* C20: a successful Encode adds one to numEncoded and len(protoBytes) to
\* the uncompressed bytes, a failed Encode (soft or hard) adds to neither,
\* Reset, DiscardReset and Close bring both counters to 0, NumEncoded and
\* Stats return the counters, and the queries and SetSchema leave them.
C20_CountersFollowAcceptedSamples ==
    [][/\ (ret'.op = "Encode" /\ ret'.err = NoErr) =>
             /\ numEncoded' = numEncoded + 1
             /\ stats' = stats + ret'.n
       /\ (ret'.op = "Encode" /\ ret'.err # NoErr) =>
             /\ numEncoded' = numEncoded
             /\ stats' = stats
       /\ ret'.op \in {"Reset", "DiscardReset", "Close"} =>
             /\ numEncoded' = 0
             /\ stats' = 0
       /\ ret'.op \notin {"Encode", "Reset", "DiscardReset", "Close", "Discard"} =>
             /\ numEncoded' = numEncoded
             /\ stats' = stats
       /\ ret'.op = "NumEncoded" => ret'.n = numEncoded
       /\ ret'.op = "Stats" => ret'.n = stats]_vars

\* C21: LastEncoded returns errEncoderClosed on a closed encoder, the
\* wrapped hard error on an open encoder with hardErr set,
\* errNoEncodedDatapoints on a usable encoder without samples, and else
\* lastEncodedDP, which is the timestamp that the last successful Encode of
\* the stream was given, with the value 0 whatever value it was given; a
\* failed Encode and the queries leave lastEncodedDP and numEncoded as they
\* were.
C21_LastEncoded ==
    [][/\ ret'.op = "LastEncoded" =>
             /\ closed => ret'.err = errEncoderClosed
             /\ (~closed /\ hardErr # NoErr) =>
                   ret'.err = errHardErr(hardErr[1])
             /\ (~closed /\ hardErr = NoErr /\ numEncoded = 0) =>
                   ret'.err = errNoEncodedDatapoints
             /\ (~closed /\ hardErr = NoErr /\ numEncoded > 0) =>
                   /\ ret'.err = NoErr
                   /\ ret'.dp = lastEncodedDP
             /\ ret'.err # NoErr => ret'.dp = ZeroDatapoint
       /\ Accepted =>
             /\ ret'.arg.Value \in Values
             /\ lastEncodedDP' =
                    [Timestamp |-> ret'.arg.Timestamp, Value |-> 0]
       /\ (ret'.op = "Encode" /\ ret'.err # NoErr) =>
             /\ lastEncodedDP' = lastEncodedDP
             /\ numEncoded' = numEncoded
       /\ ret'.op \in NonLifecycleOps \ {"Encode"} =>
             /\ lastEncodedDP' = lastEncodedDP
             /\ numEncoded' = numEncoded]_vars

\* LastEncoded after a second sample, which was given a value other than
\* 0, was accepted
C21_Witness ==
    /\ ret.op = "LastEncoded"
    /\ ret.err = NoErr
    /\ ret.dp = [Timestamp |-> 2, Value |-> 0]
    /\ numEncoded = 2
    /\ 0 \notin Values

\* the dictionary of the bytes field with number f
DictOf(cfs, f) ==
    cfs[CHOOSE k \in 1..Len(cfs) : cfs[k].fieldNum = f].bytesFieldDict

\* the parts that the step has written for bytes fields
NewBytesParts ==
    Range(SelectSeq(NewParts, LAMBDA p :
        /\ p.kind = "custom"
        /\ \E k \in 1..Len(customFields) :
              /\ customFields[k].fieldNum = p.field
              /\ customFields[k].fieldType = bytesField))

\* the path that the part p of stream s was written on: the bit 0 for an
\* unchanged value, 1 0 and the index for a value of the dictionary, 1 1
\* and the literal for a new value
BytesPath(s, p) ==
    LET b == PartBits(s, p)
    IN IF b[1] = opCodeNoChange THEN "noChange"
       ELSE IF b[2] = opCodeInterpretSubsequentBitsAsLRUIndex THEN "index"
       ELSE "literal"

\* C22: the dictionary of every bytes field holds at most
\* ByteFieldDictionaryLRUSize entries; a write on the no-change path or on
\* the index path leaves its length, and a write of a new literal adds one
\* to its length while it is below the capacity and leaves it at the
\* capacity.
C22_DictLengthWithinCapacity ==
    [][/\ \A k \in 1..Len(customFields) :
             Len(customFields[k].bytesFieldDict) <= lruSize
       /\ \A k \in 1..Len(customFields') :
             Len(customFields'[k].bytesFieldDict) <= lruSize'
       /\ ret'.op = "Encode" =>
             \A p \in NewBytesParts :
                 LET before == Len(DictOf(customFields, p.field))
                     after == Len(DictOf(customFields', p.field))
                 IN IF BytesPath(stream', p) = "literal"
                    THEN after = IF before < lruSize THEN before + 1
                                 ELSE lruSize
                    ELSE after = before]_vars

\* a third literal was written to a dictionary of two entries
C22_Witness ==
    /\ lruSize = 2
    /\ ret.op = "Encode"
    /\ WrittenValues(parts, 1) = << <<1>>, <<2>>, <<3>> >>
    /\ Len(DictOf(customFields, 1)) = 2

\* C23: the first sample of a stream is written, at a bytes field, on the
\* new-literal path, and a sample that holds for the field the value of
\* the sample before it is written as the single bit 0 and leaves the
\* dictionary as it is: N samples with the same value are one literal and
\* N - 1 no-change bits, and the dictionary holds one entry.
C23_SameValueIsNoChange ==
    [][Accepted =>
          \A p \in NewBytesParts :
              LET w == WrittenValues(parts, p.field)
                  w1 == WrittenValues(parts', p.field)
              IN /\ w = <<>> => BytesPath(stream', p) = "literal"
                 /\ (w # <<>> /\ p.val = w[Len(w)]) =>
                       /\ PartBits(stream', p) = <<opCodeNoChange>>
                       /\ DictOf(customFields', p.field) =
                              DictOf(customFields, p.field)
                 /\ Cardinality(Range(w1)) = 1 =>
                       Len(DictOf(customFields', p.field)) = 1]_vars

\* three samples with the same value: one literal, two no-change bits
C23_Witness ==
    /\ ret.op = "Encode"
    /\ ret.err = NoErr
    /\ WrittenValues(parts, 1) = << <<1>>, <<1>>, <<1>> >>
    /\ Len(DictOf(customFields, 1)) = 1
    /\ LET c == SelectSeq(parts, LAMBDA p : p.kind = "custom")
       IN /\ BytesPath(stream, c[1]) = "literal"
          /\ PartBits(stream, c[2]) = <<0>>
          /\ PartBits(stream, c[3]) = <<0>>

\* the bytes of stream s that the dictionary entry st references
EntryBytes(s, st) ==
    SubSeqOrEmpty(Rawbytes(s), st.startPos + 1, st.startPos + st.length)

\* the value v is among the last n values of the sequence w
InLastWrites(w, n, v) ==
    \E k \in 1..Len(w) : k > Len(w) - n /\ w[k] = v

\* C24 as the claim states it: a value that was written for the field in
\* the last ByteFieldDictionaryLRUSize writes is written as 1, 0 and the
\* index bits.
C24_RecentValueIsIndexReference ==
    [][Accepted =>
          \A p \in NewBytesParts :
              InLastWrites(WrittenValues(parts, p.field), lruSize, p.val) =>
                  BytesPath(stream', p) = "index"]_vars

\* C24: a value that was written for the field in the last
\* ByteFieldDictionaryLRUSize writes is never written as a literal: it is
\* the single bit 0 when it is the value of the write before, and else 1,
\* 0 and, in the bits needed for the capacity, the index that its entry
\* had in the dictionary.
C24_RecentValueIsNoLiteral ==
    [][Accepted =>
          \A p \in NewBytesParts :
              LET w == WrittenValues(parts, p.field)
                  dict == DictOf(customFields, p.field)
              IN InLastWrites(w, lruSize, p.val) =>
                    IF p.val = w[Len(w)]
                    THEN PartBits(stream', p) = <<opCodeNoChange>>
                    ELSE \E j \in 1..Len(dict) :
                            /\ EntryBytes(stream, dict[j]) = p.val
                            /\ PartBits(stream', p) =
                                   <<opCodeChange,
                                     opCodeInterpretSubsequentBitsAsLRUIndex>>
                                   \o Bits(j - 1,
                                        numBitsRequiredForNumUpToN(lruSize))]_vars

\* with four entries, the value of three writes before is written as the
\* index 0 in two bits
C24_Witness ==
    /\ lruSize = 4
    /\ ret.op = "Encode"
    /\ ret.err = NoErr
    /\ WrittenValues(parts, 1) = << <<1>>, <<2>>, <<3>>, <<4>>, <<1>> >>
    /\ LET c == SelectSeq(parts, LAMBDA p : p.kind = "custom")
       IN PartBits(stream, c[5]) = <<1, 0, 0, 0>>

\* five distinct literals were written for the bytes field with number f
\* of a stream whose dictionaries hold four entries
FiveLiteralsWritten(f) ==
    /\ lruSize = 4
    /\ Len(WrittenValues(parts, f)) = 5
    /\ Cardinality(Range(WrittenValues(parts, f))) = 5

\* C25 as the claim states it: with four entries and after five distinct
\* literals, the first literal is written again as a new literal and each
\* of the other four on the index path.
C25_FifthLiteralIsIndexReference ==
    [][Accepted =>
          \A p \in NewBytesParts :
              LET w == WrittenValues(parts, p.field)
              IN FiveLiteralsWritten(p.field) =>
                    /\ p.val = w[1] => BytesPath(stream', p) = "literal"
                    /\ p.val \in {w[2], w[3], w[4], w[5]} =>
                          BytesPath(stream', p) = "index"]_vars

\* C25: with four entries and after five distinct literals, the first
\* literal is written again as a new literal (it was evicted), the second,
\* third and fourth on the index path, and the fifth, the value of the
\* write before, as the no-change bit.
C25_EvictionOfFirstLiteral ==
    [][Accepted =>
          \A p \in NewBytesParts :
              LET w == WrittenValues(parts, p.field)
              IN FiveLiteralsWritten(p.field) =>
                    /\ p.val = w[1] => BytesPath(stream', p) = "literal"
                    /\ p.val \in {w[2], w[3], w[4]} =>
                          BytesPath(stream', p) = "index"
                    /\ p.val = w[5] =>
                          PartBits(stream', p) = <<opCodeNoChange>>]_vars

\* the sixth write is the first literal again, written as a literal
C25_Witness ==
    /\ lruSize = 4
    /\ ret.op = "Encode"
    /\ ret.err = NoErr
    /\ WrittenValues(parts, 1) =
           << <<1>>, <<2>>, <<3>>, <<4>>, <<5>>, <<1>> >>
    /\ LET c == SelectSeq(parts, LAMBDA p : p.kind = "custom")
       IN BytesPath(stream, c[6]) = "literal"

\* C26: the first accepted sample of a stream (numEncoded is 0) is written
\* as the stream header, the control prefix 1 1 t 1, the time-unit block
\* when t is 1, and the schema block; Reset and DiscardReset with a
\* descriptor leave hasEncodedSchema false, also when the descriptor has
\* the deploy id of the current one.
C26_FirstSampleCarriesSchema ==
    [][/\ (Accepted /\ numEncoded = 0) =>
             LET prefix == PartBits(stream', NewParts[2])
                 t == prefix[3] = opCodeTimeUnitChange
             IN /\ Len(NewParts) >= 4
                /\ NewParts[1].kind = "header" /\ NewParts[1].pos = 0
                /\ NewParts[2].kind = "prefix"
                /\ Len(prefix) = 4
                /\ prefix[1] = 1 /\ prefix[2] = 1
                /\ prefix[4] = opCodeSchemaChange
                /\ IF t
                   THEN /\ NewParts[3].kind = "timeUnit"
                        /\ NewParts[4].kind = "schema"
                   ELSE NewParts[3].kind = "schema"
       /\ (ret'.op \in {"Reset", "DiscardReset"} /\ schema' # NilSchema) =>
             ~hasEncodedSchema']_vars

\* the part p of stream s is the literal that the dictionary entry st of
\* the bytes field with number f references: 1 1, the length, zero bits up
\* to the next byte, and the bytes of the value, which start at the byte
\* offset startPos
LiteralOfEntry(s, p, f, st) ==
    LET lengthBits == 8 * Len(PutUvarint(st.length))
        padding == 8 * st.startPos - (p.pos + 2 + lengthBits)
    IN /\ p.kind = "custom"
       /\ p.field = f
       /\ BytesPath(s, p) = "literal"
       /\ padding \in 0..7
       /\ \A i \in 1..padding : s[p.pos + 2 + lengthBits + i] = 0
       /\ p.pos + p.len = 8 * (st.startPos + st.length)
       /\ st.length = Len(p.val)
       /\ EntryBytes(s, st) = p.val

\* C27: every entry of the dictionary of a bytes field references bytes
\* within the stream, which start on the byte boundary after the padding
\* of a literal written for the field and equal the value written there;
\* the error for a position outside of the stream is never raised.
C27_DictEntriesReferenceLiterals ==
    /\ \A k \in 1..Len(customFields) :
          \A j \in 1..Len(customFields[k].bytesFieldDict) :
              LET st == customFields[k].bytesFieldDict[j]
              IN /\ st.startPos + st.length <= Len(Rawbytes(stream))
                 /\ \E i \in 1..Len(parts) :
                       LiteralOfEntry(stream, parts[i],
                                      customFields[k].fieldNum, st)
    /\ hardErr # errBytesMatch
    /\ ret.err # errEncodingProto(errBytesMatch[1])

\* four entries, the first of them for a literal written after a padding
\* of more than one bit
C27_Witness ==
    /\ lruSize = 4
    /\ Len(customFields) = 1
    /\ Len(DictOf(customFields, 1)) = 4
    /\ LET st == DictOf(customFields, 1)[1]
       IN \E i \in 1..Len(parts) :
             /\ LiteralOfEntry(stream, parts[i], 1, st)
             /\ 8 * st.startPos - (parts[i].pos + 10) > 1

\* the number that the bits b are, most significant bit first
RECURSIVE BitsValue(_)
BitsValue(b) ==
    IF b = <<>> THEN 0
    ELSE 2 * BitsValue(SubSeq(b, 1, Len(b) - 1)) + b[Len(b)]

\* the dictionary d without its entry j
WithoutEntry(d, j) ==
    [k \in 1..(Len(d) - 1) |-> IF k < j THEN d[k] ELSE d[k + 1]]

\* C28: a write on the index path with index j moves entry j to the tail
\* and keeps the order of the other entries; a new literal is appended at
\* the tail, after the head was removed when the dictionary was full (with
\* capacity 1 the new entry is the only one); the no-change path leaves
\* the dictionary; no two entries of a dictionary reference equal bytes.
C28_DictRecencyOrder ==
    [][Accepted =>
          \A p \in NewBytesParts :
              LET d == DictOf(customFields, p.field)
                  d1 == DictOf(customFields', p.field)
                  path == BytesPath(stream', p)
                  j == BitsValue(SubSeq(PartBits(stream', p), 3, p.len)) + 1
              IN /\ path = "noChange" => d1 = d
                 /\ path = "index" =>
                       /\ j \in 1..Len(d)
                       /\ EntryBytes(stream, d[j]) = p.val
                       /\ d1 = Append(WithoutEntry(d, j), d[j])
                 /\ path = "literal" =>
                       /\ SubSeq(d1, 1, Len(d1) - 1) =
                              IF Len(d) < lruSize THEN d
                              ELSE WithoutEntry(d, 1)
                       /\ EntryBytes(stream', d1[Len(d1)]) = p.val
                       /\ lruSize = 1 => Len(d1) = 1
                 /\ \A i1, i2 \in 1..Len(d1) :
                       i1 # i2 => EntryBytes(stream', d1[i1])
                                  # EntryBytes(stream', d1[i2])]_vars

\* with four entries for the literals 1 to 4, the first was written again
C28_Witness ==
    /\ lruSize = 4
    /\ ret.op = "Encode"
    /\ ret.err = NoErr
    /\ WrittenValues(parts, 1) = << <<1>>, <<2>>, <<3>>, <<4>>, <<1>> >>
    /\ [k \in 1..4 |-> EntryBytes(stream, DictOf(customFields, 1)[k])]
           = << <<2>>, <<3>>, <<4>>, <<1>> >>

\* the residual proto part of the sample that the step has written
NewProtoPart == NewParts[Len(NewParts)]

\* the fields of the schema that have no custom coder
ResidualFields(md) ==
    {f \in FieldNums(md) :
        CustomFieldType(FindFieldByNumber(md, f).type) = notCustomEncodedField}

\* the value that the residual field f of the sample is compared with: the
\* value in the accepted sample before it, and the default value of the
\* field in the first sample of a stream and in the first sample after the
\* schema was changed (the sample that carries the schema block)
ReferenceValue(f) ==
    LET prev == SelectSeq(parts, LAMBDA p : p.kind = "proto")
    IN IF prev = <<>> \/ \E k \in 1..Len(NewParts) : NewParts[k].kind = "schema"
       THEN DefaultValue(FindFieldByNumber(schema', f).type)
       ELSE prev[Len(prev)].val[f]

\* the residual fields whose value in the sample differs from the
\* reference value, and those of them that hold their default value
ChangedFields ==
    {f \in ResidualFields(schema') : NewProtoPart.val[f] # ReferenceValue(f)}
ChangedToDefault ==
    {f \in ChangedFields :
        NewProtoPart.val[f] = DefaultValue(FindFieldByNumber(schema', f).type)}

MaxOfSet(S) == CHOOSE x \in S : \A y \in S : y <= x

\* the bits of the residual part after the two control bits and the
\* bitset, which is the varint of the largest field number and one bit
\* for each field number up to it
BitsetLen == IF ChangedToDefault = {} THEN 0 ELSE 8 + MaxOfSet(ChangedToDefault)
LengthAndPayload ==
    LET bits == PartBits(stream', NewProtoPart)
    IN SubSeq(bits, 3 + BitsetLen, Len(bits))

MarshaledPayload ==
    LET b == SubSeq(LengthAndPayload, 9, Len(LengthAndPayload))
    IN [k \in 1..(Len(b) \div 8) |-> BitsValue(SubSeq(b, 8 * k - 7, 8 * k))]

\* C30: the bytes marshalled into the residual proto part of an accepted
\* sample are the wire bytes of the changed residual fields alone: no
\* unchanged residual field and no field with a custom coder is in them.
C30_PayloadHoldsChangedResidualFields ==
    [][(Accepted /\ ChangedFields # {}) =>
          MarshaledPayload =
              MarshalFrom(schema', [vals |-> NewProtoPart.val],
                          ChangedFields)]_vars

\* the offset in the stream at which the residual part of the sample has
\* written its control bits and its bitset
PayloadOffset == NewProtoPart.pos + 2 + BitsetLen

\* the 0 bits that take the offset to the next byte boundary
PadLen(offset) == (8 - (offset % 8)) % 8

\* C31: when the residual proto part of an accepted sample carries a
\* payload, the varint of the length and the marshalled bytes start at a
\* byte boundary of the stream: the control bits and the bitset are
\* followed by 0 bits up to the next byte boundary, then by the varint of
\* a length and that many bytes.
C31_PayloadIsByteAligned ==
    [][(Accepted /\ ChangedFields # {}) =>
          LET pad == PadLen(PayloadOffset)
              rest == LengthAndPayload
              n == BitsValue(SubSeq(rest, pad + 1, pad + 8))
          IN /\ Len(rest) >= pad + 8
             /\ \A k \in 1..pad : rest[k] = 0
             /\ n < 128
             /\ Len(rest) = pad + 8 + 8 * n]_vars

\* the numbers of the set S in ascending order, each of them once
RECURSIVE Ascending(_)
Ascending(S) ==
    IF S = {} THEN <<>>
    ELSE LET x == CHOOSE y \in S : \A z \in S : y <= z
         IN <<x>> \o Ascending(S \ {x})

\* C32: encodeBitset of a non-empty list of 1-indexed field numbers writes
\* the varint of the largest value and then as many bits as that value,
\* of which bit i (from 0) is 1 exactly when i + 1 is in the list; lists
\* with the same values, in any order and with any duplicates, write the
\* bits of the list that holds each value once in ascending order, so the
\* same bits, and the last bit is 1.
C32_EncodeBitset ==
    [][ret'.op = "encodeBitset" =>
          LET values == ret'.seg
              max == MaxOfSet(Range(values))
              bits == SubSeq(stream', Len(stream) + 1, Len(stream'))
          IN /\ SubSeq(stream', 1, Len(stream)) = stream
             /\ Len(bits) = 8 + max
             /\ SubSeq(bits, 1, 8) = Bits(max, 8)
             /\ \A i \in 0..(max - 1) :
                   bits[9 + i] = opCodeBitsetValueIsSet
                       <=> i + 1 \in Range(values)
             /\ \A i \in 0..(max - 1) :
                   bits[9 + i] \in {opCodeBitsetValueIsSet,
                                    opCodeBitsetValueIsNotSet}
             /\ bits[Len(bits)] = opCodeBitsetValueIsSet
             /\ encodeBitset(Enc, Ascending(Range(values))).stream = stream'
                 ]_vars

\* a list with a duplicate and not in order was written after another
\* bitset, in the middle of a byte
C32_Witness ==
    /\ ret.op = "encodeBitset"
    /\ ret.seg = <<3, 1, 3>>
    /\ Len(stream) > 11
    /\ SubSeq(stream, Len(stream) - 10, Len(stream))
           = Bits(3, 8) \o <<1, 0, 1>>
    /\ (Len(stream) - 11) % 8 # 0

\* the largest field number of the custom fields cfs, 0 without any
MaxCustomFieldNum(cfs) ==
    IF cfs = <<>> THEN 0
    ELSE MaxOfSet({cfs[k].fieldNum : k \in 1..Len(cfs)})

\* the custom type that the custom fields cfs give field number i
CustomTypeOf(cfs, i) ==
    IF \E k \in 1..Len(cfs) : cfs[k].fieldNum = i
    THEN cfs[CHOOSE k \in 1..Len(cfs) : cfs[k].fieldNum = i].fieldType
    ELSE notCustomEncodedField

\* C33: the custom-schema block that an Encode call writes is the varint
\* of M, the largest field number of the custom fields (0 without custom
\* fields, and then nothing follows), and M groups of
\* numBitsToEncodeCustomType bits, of which group i is the custom type of
\* the custom field with number i and notCustomEncodedField when there is
\* none; the custom fields are in ascending order of their numbers.
C33_CustomSchemaBlock ==
    [][\A k \in 1..Len(NewParts) :
          NewParts[k].kind = "schema" =>
              LET bits == PartBits(stream', NewParts[k])
                  cfs == customFields
                  M == MaxCustomFieldNum(cfs)
                  w == numBitsToEncodeCustomType
              IN /\ \A i, j \in 1..Len(cfs) :
                       i < j => cfs[i].fieldNum < cfs[j].fieldNum
                 /\ Len(bits) = 8 + M * w
                 /\ SubSeq(bits, 1, 8) = Bits(M, 8)
                 /\ \A i \in 1..M :
                       SubSeq(bits, 9 + (i - 1) * w, 8 + i * w)
                           = Bits(CustomTypeOf(cfs, i), w)]_vars

\* the block of a schema with the custom fields 1 (bytes) and 3 (bool): the
\* group of field 2 is notCustomEncodedField
C33_Witness ==
    /\ ret.op = "Encode"
    /\ schemaDesc = DescrA
    /\ \E k \in 1..Len(parts) :
          /\ parts[k].kind = "schema"
          /\ PartBits(stream, parts[k])
                 = Bits(3, 8) \o Bits(bytesField, 4)
                     \o Bits(notCustomEncodedField, 4) \o Bits(boolField, 4)

\* the calls that are not a Reset, a DiscardReset, a Close or a Discard
AppendOnlyOps ==
    {"Encode", "Len", "NumEncoded", "Stats", "LastEncoded", "Bytes",
     "Stream", "SetSchema"}

\* the fields of the encoder
EncoderFields ==
    <<stream, schemaDesc, schema, numEncoded, lastEncodedDP, lastEncoded,
      customFields, protoFields, timestampEncoder, hasEncodedSchema,
      hardErr, closed, stats, lruSize>>

\* C34: Encode, whether it succeeds or fails, the queries and SetSchema
\* leave the bits of the stream as they are and at most append to them:
\* the stream before the call is a prefix of the stream after it.  Stream
\* changes no field of the encoder, returns no reader exactly when the
\* stream is empty, and else the bytes of the stream.
C34_AppendOnly ==
    [][/\ ret'.op \in AppendOnlyOps =>
             /\ Len(stream') >= Len(stream)
             /\ SubSeq(stream', 1, Len(stream)) = stream
       /\ ret'.op = "Stream" =>
             /\ EncoderFields' = EncoderFields
             /\ ret'.ok <=> Len(stream) > 0
             /\ ret'.ok => ret'.seg = Rawbytes(stream)]_vars

\* Stream has returned the bytes of two samples, and the stream is as it
\* was
C34_Witness ==
    /\ ret.op = "Stream"
    /\ ret.ok
    /\ numEncoded = 2
    /\ hardErr = NoErr
    /\ ~closed
    /\ Len(stream) > 0
    /\ ret.seg = Rawbytes(stream)

====
